---------------------------- MODULE Spec2Model ----------------------------
(***************************************************************************)
(* A model of the conversation orchestration engine of a2a-orchestrator:   *)
(*   - RequestManager  (backend/src/world/requestManager.ts): the bounded  *)
(*     concurrency scheduler of model calls;                               *)
(*   - MessageDAG      (backend/src/world/messageDAG.ts): the history;     *)
(*   - World           (backend/src/world/world.ts): one conversation;     *)
(*   - Verifier        (backend/src/world/verifier.ts): the sticky intent. *)
(* JavaScript runs each handler and each continuation of an await to its   *)
(* next await without interruption, so one action of the model is one such *)
(* run-to-completion step.                                                 *)
(***************************************************************************)
EXTENDS Integers, Sequences, FiniteSets, TLC

VARIABLES
  \* ---- RequestManager
  queue,            \* QueuedRequest[]: the pending jobs, front first
  activeRequests,   \* number of calls counted as in flight
  inflight,         \* jobs whose executeRequest is awaited by a processQueue run
  promise,          \* per job: the state of the promise request() returned
  nextJob,          \* the next job to be submitted (jobs are numbered as submitted)
  settleCount,      \* per job: how many times resolve or reject was called
  dispatchLog,      \* jobs in the order processQueue started them
  dispatchCount,    \* per job: how many times it was started
  callResult        \* per job: what its own external call produced

VARIABLES
  \* ---- World (one conversation) and its MessageDAG and Verifier
  agents,                           \* the roster: names of the agent personas
  messages,                         \* MessageDAG.messages, in insertion order
  rootMessageId,                    \* MessageDAG.rootMessageId
  latestAcceptedMessageId,          \* MessageDAG.latestAcceptedMessageId
  messageIdCounter,
  currentBlock,
  nextSpeaker,
  firstResponseReceived,            \* ids of user messages marked true
  initialUserMessage,
  shouldStopConversation,
  stopReason,
  userIntent,
  currentConversationMessageCount,
  verifierIntent,                   \* Verifier.userIntent
  persisted,                        \* the value stored under messages:<threadId>
  \* ---- the suspended asynchronous work of the conversation
  pipes,                            \* per human message: its broadcast and loop
  verifyPending,                    \* verify() calls awaiting the model, by captured initial message
  verifyLaunched,                   \* the calls of verify(), in order: message id, count, level
  stamp,                            \* source of Date.now() and Math.random() in message ids
  notifiedBlock                     \* the last payload notifyBlock sent to the subscribers

VARIABLES
  \* ---- the model calls of the conversation that go through RequestManager
  calls             \* per job: the call whose promise the job settles

VARIABLES
  \* ---- ThreadManager and the persistence store it writes
  threads,          \* ThreadManager.threads: thread id -> Thread
  worlds,           \* ThreadManager.worlds: thread id -> World
  stored,           \* the store: threads:list, thread:<id> and messages:<id>
  returned          \* whether the last ThreadManager operation reported success

schedVars == <<queue, activeRequests, inflight, promise, nextJob,
               settleCount, dispatchLog, dispatchCount, callResult>>

dagVars == <<messages, rootMessageId, latestAcceptedMessageId>>

worldVars == <<agents, dagVars, messageIdCounter, currentBlock, nextSpeaker,
                firstResponseReceived, initialUserMessage, shouldStopConversation,
                stopReason, userIntent, currentConversationMessageCount,
                verifierIntent, persisted, pipes, verifyPending, verifyLaunched, stamp,
                notifiedBlock>>

regVars == <<threads, worlds, stored, returned>>

vars == <<schedVars, worldVars, calls, regVars>>

-----------------------------------------------------------------------------
(* RequestManager                                                          *)

MAX_CONCURRENT_REQUESTS == 4

\* Number of jobs the clients submit in a run.
MaxJobs == 7

\* Number of model calls the conversation makes in a run of CallSpec.
MaxCalls == 9

JobIds == 1..(IF MaxCalls > MaxJobs THEN MaxCalls ELSE MaxJobs)

\* What the model endpoint can answer to one call.
Responses == {"text", "empty_text", "non_2xx", "network_error"}

\* executeRequest: the text, or a thrown error.
ExecuteRequest(resp) ==
  IF resp = "text" THEN "ok" ELSE "fail"

\* The scheduler's own fields, as one record the methods transform.
SchedState ==
  [queue |-> queue, activeRequests |-> activeRequests, inflight |-> inflight,
   dispatchLog |-> dispatchLog, dispatchCount |-> dispatchCount]

\* processQueue up to its await: start the front job if a slot is free.
ProcessQueue_LIFO(s) ==
  IF s.activeRequests >= MAX_CONCURRENT_REQUESTS \/ s.queue = <<>>
  THEN s
  ELSE LET request == s.queue[Len(s.queue)] IN
       [s EXCEPT !.queue = SubSeq(s.queue, 1, Len(s.queue) - 1),
                 !.activeRequests = @ + 1,
                 !.inflight = @ \cup {request},
                 !.dispatchLog = Append(@, request),
                 !.dispatchCount = [@ EXCEPT ![request] = @ + 1]]

ProcessQueue_OffByOne(s) ==
  IF s.activeRequests > MAX_CONCURRENT_REQUESTS \/ s.queue = <<>>
  THEN s
  ELSE LET request == Head(s.queue) IN
       [s EXCEPT !.queue = Tail(s.queue),
                 !.activeRequests = @ + 1,
                 !.inflight = @ \cup {request},
                 !.dispatchLog = Append(@, request),
                 !.dispatchCount = [@ EXCEPT ![request] = @ + 1]]

ProcessQueue(s) ==
  IF s.activeRequests >= MAX_CONCURRENT_REQUESTS \/ s.queue = <<>>
  THEN s
  ELSE LET request == Head(s.queue) IN
       [s EXCEPT !.queue = Tail(s.queue),
                 !.activeRequests = @ + 1,
                 !.inflight = @ \cup {request},
                 !.dispatchLog = Append(@, request),
                 !.dispatchCount = [@ EXCEPT ![request] = @ + 1]]

\* The finally block of processQueue: release the slot, then processQueue().
ReleaseSlot_NoDrain(s, j) ==
  [s EXCEPT !.activeRequests = @ - 1, !.inflight = @ \ {j}]

ReleaseSlot(s, j) ==
  ProcessQueue([s EXCEPT !.activeRequests = @ - 1, !.inflight = @ \ {j}])

\* request.resolve(result) / request.reject(error): the closures of job j's
\* own promise. A settled promise ignores later calls.
Settle_Latest(p, j, result) ==
  LET k == dispatchLog[Len(dispatchLog)] IN
  [p EXCEPT ![k] = IF @ = "pending"
                   THEN (IF result = "ok" THEN "resolved" ELSE "rejected")
                   ELSE @]

Settle(p, j, result) ==
  [p EXCEPT ![j] = IF @ = "pending"
                   THEN (IF result = "ok" THEN "resolved" ELSE "rejected")
                   ELSE @]

\* request(): push the job, then processQueue().
Submit(s, j) == ProcessQueue([s EXCEPT !.queue = Append(@, j)])

SchedInit ==
  /\ queue = <<>>
  /\ activeRequests = 0
  /\ inflight = {}
  /\ promise = [j \in JobIds |-> "none"]
  /\ nextJob = 1
  /\ settleCount = [j \in JobIds |-> 0]
  /\ dispatchLog = <<>>
  /\ dispatchCount = [j \in JobIds |-> 0]
  /\ callResult = [j \in JobIds |-> "none"]

SetSched(s) ==
  /\ queue' = s.queue
  /\ activeRequests' = s.activeRequests
  /\ inflight' = s.inflight
  /\ dispatchLog' = s.dispatchLog
  /\ dispatchCount' = s.dispatchCount

\* A client calls request().
Request ==
  /\ nextJob <= MaxJobs
  /\ LET j == nextJob IN
     /\ promise' = [promise EXCEPT ![j] = "pending"]
     /\ nextJob' = j + 1
     /\ SetSched(Submit(SchedState, j))
  /\ UNCHANGED <<settleCount, callResult, worldVars, calls, regVars>>

\* The continuation of `await this.executeRequest(request)` for job j:
\* resolve or reject, then the finally block.
Complete(j, resp) ==
  /\ j \in inflight
  /\ LET result == ExecuteRequest(resp) IN
     /\ callResult' = [callResult EXCEPT ![j] = result]
     /\ promise' = Settle(promise, j, result)
     /\ settleCount' = [settleCount EXCEPT ![j] = @ + 1]
  /\ SetSched(ReleaseSlot(SchedState, j))
  /\ UNCHANGED <<nextJob, worldVars, calls, regVars>>

SchedNext ==
  \/ Request
  \/ \E j \in JobIds, resp \in Responses : Complete(j, resp)


-----------------------------------------------------------------------------
(* Message and MessageDAG                                                  *)

AgentNames == {"A", "B"}

\* Texts a human can send.
UserContents == {"q1", "q2"}

\* The text of an agent's reply.
ReplyContent == "r"

\* No message id (null, or an absent replyTo).
NoId == <<0, 0>>

\* No message (undefined).
NoMsg == [id |-> NoId, speaker |-> "", content |-> "", replyTo |-> NoId, status |-> "unset"]

\* generateMessageId: `msg_${++counter}_${Date.now()}_${random}`; n is the
\* incremented counter and u the time/random part, which never repeats.
GenerateMessageId_CounterOnly(n, u) == <<n, 0>>

GenerateMessageId(n, u) == <<n, u>>

\* Map.get(id): the message stored under id, or NoMsg.
GetMessage(msgs, id) ==
  IF \E i \in 1..Len(msgs) : msgs[i].id = id
  THEN msgs[CHOOSE i \in 1..Len(msgs) : msgs[i].id = id]
  ELSE NoMsg

\* Map.set(id, message): a new key goes last, an old key keeps its place.
MapSet(msgs, m) ==
  IF \E i \in 1..Len(msgs) : msgs[i].id = m.id
  THEN [i \in 1..Len(msgs) |-> IF msgs[i].id = m.id THEN m ELSE msgs[i]]
  ELSE Append(msgs, m)

\* The three fields of the DAG, as one record its methods transform.
Dag == [messages |-> messages, rootMessageId |-> rootMessageId,
        latestAcceptedMessageId |-> latestAcceptedMessageId]

EmptyDag_KeepRoot ==
  [messages |-> <<>>, rootMessageId |-> rootMessageId, latestAcceptedMessageId |-> NoId]

EmptyDag == [messages |-> <<>>, rootMessageId |-> NoId, latestAcceptedMessageId |-> NoId]

AddMessage(d, m) ==
  LET isRoot == d.rootMessageId = NoId /\ m.speaker = "User" IN
  [messages |-> MapSet(d.messages, m),
   rootMessageId |-> IF isRoot THEN m.id ELSE d.rootMessageId,
   latestAcceptedMessageId |->
     IF m.status = "accepted" THEN m.id
     ELSE IF isRoot THEN m.id
     ELSE d.latestAcceptedMessageId]

GetChildren(msgs, messageId) ==
  SelectSeq(msgs, LAMBDA msg : msg.replyTo = messageId)

\* Array.find: the first element satisfying the test, or NoMsg.
FirstAccepted(children) ==
  LET acc == SelectSeq(children, LAMBDA child : child.status = "accepted") IN
  IF acc = <<>> THEN NoMsg ELSE Head(acc)

\* The while loop of getMainHistory, run for at most `fuel` iterations.
\* done is FALSE when the loop is still running after them.
RECURSIVE MainWalk(_, _, _, _)
MainWalk(msgs, currentId, mainHistory, fuel) ==
  IF currentId = NoId THEN [history |-> mainHistory, done |-> TRUE]
  ELSE LET message == GetMessage(msgs, currentId) IN
       IF message = NoMsg THEN [history |-> mainHistory, done |-> TRUE]
       ELSE IF fuel = 0 THEN [history |-> mainHistory, done |-> FALSE]
       ELSE MainWalk(msgs, FirstAccepted(GetChildren(msgs, currentId)).id,
                     Append(mainHistory, message), fuel - 1)

\* getMainHistory on a DAG; a walk over n stored messages that has not ended
\* after n + 1 iterations has come back to a message and never ends.
MainHistoryRun(d) ==
  IF d.rootMessageId = NoId
  THEN [history |-> <<>>, done |-> TRUE]
  ELSE MainWalk(d.messages, d.rootMessageId, <<>>, Len(d.messages) + 1)

GetMainHistory(d) == MainHistoryRun(d).history

-----------------------------------------------------------------------------
(* World: the advisory calls                                               *)

UserSentinel == [id |-> "user", name |-> "User"]

Speaker(a) == [id |-> a, name |-> a]

maxRounds == 10

\* A text is a sequence of pieces <<what, length>>: what the characters are
\* and how many of them there are.
Str(what, n) == IF n = 0 THEN <<>> ELSE << <<what, n>> >>

\* String.length
RECURSIVE TextLen(_)
TextLen(t) == IF t = <<>> THEN 0 ELSE Head(t)[2] + TextLen(Tail(t))

\* The bound of String.substring(0, 500) in summarizeBlock.
SummaryLimit == 500

\* String.substring(0, n)
RECURSIVE Substring(_, _)
Substring(t, n) ==
  IF t = <<>> \/ n <= 0 THEN <<>>
  ELSE IF Head(t)[2] >= n THEN << <<Head(t)[1], n>> >>
  ELSE <<Head(t)>> \o Substring(Tail(t), n - Head(t)[2])

\* The lengths of the names and contents the model uses.
Length(str) ==
  CASE str \in {"A", "B"} -> 1
    [] str = "User" -> 4
    [] str \in {"q1", "q2"} -> 20
    [] str = "r" -> 300
    [] OTHER -> 0

\* `${newMessage.speaker}: ${newMessage.content}`
MessageLine(m) ==
  Str(<<m.speaker, m.content>>, Length(m.speaker) + 2 + Length(m.content))

\* What the model can answer to the summarizer's prompt: a failed call or a
\* text that does not parse, or a parsed object with a summary (none, short
\* or longer than asked for), a next speaker and a reason.
SummaryResponses ==
  {[parsed |-> FALSE, summary |-> <<>>, next |-> "", recommendation_reason |-> ""]} \cup
  {[parsed |-> TRUE, summary |-> t, next |-> n,
    recommendation_reason |-> IF t = <<>> THEN "" ELSE "why"] :
     t \in {<<>>, Str("S", 100), Str("S", 600)},
     n \in AgentNames \cup {"user", "nobody"}}

\* The answers whose summary, if they parse, is as the prompt asks: present
\* and within 500 characters.
BriefResponses ==
  {resp \in SummaryResponses : resp.parsed => resp.summary = Str("S", 100)}

\* The text of a parsed answer: the JSON around its summary.
ResponseText(resp) == Str("json", 80) \o resp.summary

\* summarizeBlock after its await. availableSpeakers was built from the
\* roster before the await; block is this.currentBlock at the time of the
\* answer.
SummarizeBlock_Unvalidated(resp, block, newMessage, availableSpeakers) ==
  IF resp.parsed
  THEN [summary |-> IF resp.summary # <<>> THEN resp.summary
                    ELSE Substring(ResponseText(resp), SummaryLimit),
        next |-> IF resp.next = "user" THEN UserSentinel ELSE Speaker(resp.next),
        recommendation_reason |-> resp.recommendation_reason]
  ELSE [summary |-> Substring(block \o Str("\n\n", 2) \o MessageLine(newMessage),
                              SummaryLimit),
        next |-> UserSentinel,
        recommendation_reason |-> ""]

SummarizeBlock_Untruncated(resp, block, newMessage, availableSpeakers) ==
  IF resp.parsed
  THEN [summary |-> IF resp.summary # <<>> THEN resp.summary
                    ELSE Substring(ResponseText(resp), SummaryLimit),
        next |-> IF resp.next \in availableSpeakers THEN Speaker(resp.next)
                 ELSE UserSentinel,
        recommendation_reason |-> resp.recommendation_reason]
  ELSE [summary |-> block \o Str("\n\n", 2) \o MessageLine(newMessage),
        next |-> UserSentinel,
        recommendation_reason |-> ""]

SummarizeBlock(resp, block, newMessage, availableSpeakers) ==
  IF resp.parsed
  THEN [summary |-> IF resp.summary # <<>> THEN resp.summary
                    ELSE Substring(ResponseText(resp), SummaryLimit),
        next |-> IF resp.next \in availableSpeakers THEN Speaker(resp.next)
                 ELSE UserSentinel,
        recommendation_reason |-> resp.recommendation_reason]
  ELSE [summary |-> Substring(block \o Str("\n\n", 2) \o MessageLine(newMessage),
                              SummaryLimit),
        next |-> UserSentinel,
        recommendation_reason |-> ""]

\* The evaluation level verify() writes into its prompt.
EvaluationLevel_Shifted(messageCount) ==
  IF messageCount < 3 THEN "LENIENT"
  ELSE IF messageCount < 7 THEN "MODERATE"
  ELSE IF messageCount < 12 THEN "STRICT"
  ELSE "VERY_STRICT"

EvaluationLevel(messageCount) ==
  IF messageCount <= 3 THEN "LENIENT"
  ELSE IF messageCount <= 7 THEN "MODERATE"
  ELSE IF messageCount <= 12 THEN "STRICT"
  ELSE "VERY_STRICT"

\* What the model can answer to the verifier's prompt.
Intents == {"i1", "i2"}

\* A failed call or a text that does not parse, or a parsed object; its
\* should_stop is the JSON value true, the JSON value false, or the string
\* "true".
VerifyResponses ==
  {[parsed |-> FALSE, user_intent |-> "", should_stop |-> "false", stop_reason |-> ""]} \cup
  {[parsed |-> TRUE, user_intent |-> i, should_stop |-> b,
    stop_reason |-> IF b = "false" THEN "" ELSE "reason"] :
     i \in Intents \cup {""}, b \in {"true", "false", "string_true"}}

\* Verifier.verify after its await: the verifier's intent afterwards and
\* the VerificationResult.
Verify_FailClosed(resp, intent) ==
  IF resp.parsed
  THEN LET newIntent == IF resp.user_intent # "" /\ intent = ""
                        THEN resp.user_intent ELSE intent IN
       [intent |-> newIntent,
        should_stop |-> resp.should_stop = "true",
        stop_reason |-> resp.stop_reason,
        user_intent |-> newIntent]
  ELSE [intent |-> intent, should_stop |-> TRUE, stop_reason |-> "error",
        user_intent |-> intent]

Verify_Overwrite(resp, intent) ==
  IF resp.parsed
  THEN LET newIntent == IF resp.user_intent # ""
                        THEN resp.user_intent ELSE intent IN
       [intent |-> newIntent,
        should_stop |-> resp.should_stop = "true",
        stop_reason |-> resp.stop_reason,
        user_intent |-> newIntent]
  ELSE [intent |-> intent, should_stop |-> FALSE, stop_reason |-> "",
        user_intent |-> intent]

Verify(resp, intent) ==
  IF resp.parsed
  THEN LET newIntent == IF resp.user_intent # "" /\ intent = ""
                        THEN resp.user_intent ELSE intent IN
       [intent |-> newIntent,
        should_stop |-> resp.should_stop = "true",
        stop_reason |-> resp.stop_reason,
        user_intent |-> newIntent]
  ELSE [intent |-> intent, should_stop |-> FALSE, stop_reason |-> "",
        user_intent |-> intent]

\* No notifyBlock yet.
NoBlock == [summary |-> <<>>, next |-> UserSentinel, recommendation_reason |-> "",
            stop_reason |-> "", user_intent |-> ""]

\* The payload of notifyBlock(blockResult).
BlockEvent(blockResult) ==
  [summary |-> blockResult.summary, next |-> blockResult.next,
   recommendation_reason |-> blockResult.recommendation_reason,
   stop_reason |-> "", user_intent |-> ""]

\* The object saveMessagesToRedis writes.
Snapshot(msgs, block, next, counter, initial, count) ==
  [messages |-> msgs, currentBlock |-> block, nextSpeaker |-> next,
   messageIdCounter |-> counter, initialUserMessage |-> initial,
   currentConversationMessageCount |-> count]

NoSnapshot == [messages |-> <<>>, currentBlock |-> << <<"none", 0>> >>, nextSpeaker |-> UserSentinel,
               messageIdCounter |-> 0, initialUserMessage |-> "",
               currentConversationMessageCount |-> 0]

-----------------------------------------------------------------------------
(* World: the turn pipeline of one human message                           *)

\* A pipeline is the asynchronous work POST /:threadId/messages starts for one
\* human message: broadcastToAgents, then processAgentResponsesQueue.
\*   phase "agents": Promise.all over the processSpecificAgent calls
\*         "bsum"  : broadcastToAgents awaits summarizeBlock
\*         "agent" : the loop awaits nextAgent.respond
\*         "lsum"  : the loop awaits summarizeBlock
\*         "done"  : returned
\* invoked and appended count the loop's agent calls and appended messages;
\* exit records why the pipeline returned; sinceStop counts the messages the
\* loop appended since the stop flag was set (-1 while it is not set).
NewPipe(um, roster) ==
  [phase |-> IF roster = {} THEN "done" ELSE "agents",
   um |-> um, waiting |-> roster, accepted |-> NoMsg,
   lastMessage |-> NoMsg, round |-> 0, agent |-> "", agentMessage |-> NoMsg,
   availableSpeakers |-> {}, invoked |-> 0, appended |-> 0,
   exit |-> IF roster = {} THEN "no_reply" ELSE "", sinceStop |-> -1]

\* The running pipelines when the stop flag goes from `before` to `after`.
MarkStop(ps, before, after) ==
  [p \in DOMAIN ps |->
     IF ps[p].phase = "done" \/ before = after THEN ps[p]
     ELSE [ps[p] EXCEPT !.sinceStop = IF after THEN 0 ELSE -1]]

\* The tests at the top of one iteration of the for loop.
LoopHead_NoLimit(round, lastMessage, stop, next, roster) ==
  IF stop THEN "stop"
  ELSE IF next.id = "user" THEN "human"
  ELSE IF next.name = lastMessage.speaker THEN "repeat"
  ELSE IF next.name \notin roster THEN "miss"
  ELSE "invoke"

LoopHead_NoStopCheck(round, lastMessage, stop, next, roster) ==
  IF ~(round < maxRounds) THEN "limit"
  ELSE IF next.id = "user" THEN "human"
  ELSE IF next.name = lastMessage.speaker THEN "repeat"
  ELSE IF next.name \notin roster THEN "miss"
  ELSE "invoke"

LoopHead_NoRepeatCheck(round, lastMessage, stop, next, roster) ==
  IF ~(round < maxRounds) THEN "limit"
  ELSE IF stop THEN "stop"
  ELSE IF next.id = "user" THEN "human"
  ELSE IF next.name \notin roster THEN "miss"
  ELSE "invoke"

LoopHead_NoRosterCheck(round, lastMessage, stop, next, roster) ==
  IF ~(round < maxRounds) THEN "limit"
  ELSE IF stop THEN "stop"
  ELSE IF next.id = "user" THEN "human"
  ELSE IF next.name = lastMessage.speaker THEN "repeat"
  ELSE "invoke"

LoopHead_OneMoreRound(round, lastMessage, stop, next, roster) ==
  IF ~(round <= maxRounds) THEN "limit"
  ELSE IF stop THEN "stop"
  ELSE IF next.id = "user" THEN "human"
  ELSE IF next.name = lastMessage.speaker THEN "repeat"
  ELSE IF next.name \notin roster THEN "miss"
  ELSE "invoke"

LoopHead(round, lastMessage, stop, next, roster) ==
  IF ~(round < maxRounds) THEN "limit"
  ELSE IF stop THEN "stop"
  ELSE IF next.id = "user" THEN "human"
  ELSE IF next.name = lastMessage.speaker THEN "repeat"
  ELSE IF next.name \notin roster THEN "miss"
  ELSE "invoke"

\* The loop from the top of iteration `round` to its next await or its end.
EnterRound(pipe, round, lastMessage, stop, next, roster) ==
  LET head == LoopHead(round, lastMessage, stop, next, roster) IN
  IF head = "invoke"
  THEN [pipe EXCEPT !.phase = "agent", !.round = round, !.lastMessage = lastMessage,
                    !.agent = next.name, !.agentMessage = NoMsg,
                    !.availableSpeakers = {}, !.invoked = @ + 1]
  ELSE [pipe EXCEPT !.phase = "done", !.round = round, !.lastMessage = lastMessage,
                    !.agent = "", !.agentMessage = NoMsg,
                    !.availableSpeakers = {}, !.exit = head]

\* filter(m => m.speaker === "User" && m.content === messageContent).pop()
LastUserMessage(msgs, messageContent) ==
  LET found == SelectSeq(msgs, LAMBDA m : m.speaker = "User" /\ m.content = messageContent) IN
  IF found = <<>> THEN NoMsg ELSE found[Len(found)]

\* The isFirst test and the marking of processSpecificAgent.

IsFirst(marks, id) == id \notin marks

SetDag(d) ==
  /\ messages' = d.messages
  /\ rootMessageId' = d.rootMessageId
  /\ latestAcceptedMessageId' = d.latestAcceptedMessageId

\* saveMessagesToRedis, with the values the step leaves in memory.
Save ==
  persisted' = Snapshot(messages', currentBlock', nextSpeaker', messageIdCounter',
                        initialUserMessage', currentConversationMessageCount')

WorldInit ==
  /\ agents \in SUBSET AgentNames
  /\ messages = <<>>
  /\ rootMessageId = NoId
  /\ latestAcceptedMessageId = NoId
  /\ messageIdCounter = 0
  /\ currentBlock = <<>>
  /\ nextSpeaker = UserSentinel
  /\ firstResponseReceived = {}
  /\ initialUserMessage = ""
  /\ shouldStopConversation = FALSE
  /\ stopReason = ""
  /\ userIntent = ""
  /\ currentConversationMessageCount = 0
  /\ verifierIntent = ""
  /\ persisted = NoSnapshot
  /\ pipes = <<>>
  /\ verifyPending = [c \in UserContents \cup {""} |-> 0]
  /\ verifyLaunched = <<>>
  /\ stamp = 0
  /\ notifiedBlock = NoBlock

\* POST /:threadId/messages with a message: addUserMessage, then the start of
\* broadcastToAgents (every processSpecificAgent call up to agent.respond).
SendMessage(content) ==
  LET n == messageIdCounter + 1
      message == [id |-> GenerateMessageId(n, stamp + 1), speaker |-> "User",
                  content |-> content, replyTo |-> NoId, status |-> "unset"]
      d == AddMessage(Dag, message)
      userMessage == LastUserMessage(d.messages, content)
  IN
  /\ initialUserMessage' = content
  /\ verifierIntent' = ""
  /\ shouldStopConversation' = FALSE
  /\ stopReason' = ""
  /\ userIntent' = ""
  /\ firstResponseReceived' = {}
  /\ currentConversationMessageCount' = 0
  /\ messageIdCounter' = n
  /\ stamp' = stamp + 1
  /\ SetDag(d)
  /\ pipes' = Append(MarkStop(pipes, shouldStopConversation, FALSE),
                      NewPipe(userMessage, agents))
  /\ UNCHANGED <<agents, currentBlock, nextSpeaker, verifyPending, verifyLaunched, notifiedBlock>>
  /\ Save

AfterAll_LastReply(pipe, msgs, roster) ==
  LET replies == SelectSeq(msgs, LAMBDA m : m.replyTo = pipe.um.id)
      acceptedMessage == IF replies = <<>> THEN NoMsg ELSE replies[Len(replies)] IN
  IF acceptedMessage # NoMsg
  THEN [pipe EXCEPT !.phase = "bsum", !.waiting = {}, !.accepted = acceptedMessage,
                    !.availableSpeakers = roster]
  ELSE [pipe EXCEPT !.phase = "done", !.waiting = {}, !.exit = "no_reply"]

AfterAll_AllOrNothing(pipe, msgs, roster) ==
  LET replies == SelectSeq(msgs, LAMBDA m : m.replyTo = pipe.um.id)
      acceptedMessage == FirstAccepted(replies) IN
  IF acceptedMessage # NoMsg /\ Len(replies) >= Cardinality(roster)
  THEN [pipe EXCEPT !.phase = "bsum", !.waiting = {}, !.accepted = acceptedMessage,
                    !.availableSpeakers = roster]
  ELSE [pipe EXCEPT !.phase = "done", !.waiting = {},
                    !.exit = IF acceptedMessage # NoMsg THEN "error" ELSE "no_reply"]

\* broadcastToAgents after Promise.all: find the accepted reply and, if there
\* is one, count it and call summarizeBlock.
AfterAll(pipe, msgs, roster) ==
  LET acceptedMessage ==
        FirstAccepted(SelectSeq(msgs, LAMBDA m : m.replyTo = pipe.um.id)) IN
  IF acceptedMessage # NoMsg
  THEN [pipe EXCEPT !.phase = "bsum", !.waiting = {}, !.accepted = acceptedMessage,
                    !.availableSpeakers = roster]
  ELSE [pipe EXCEPT !.phase = "done", !.waiting = {}, !.exit = "no_reply"]

BroadcastReply_Eager(p, a, ok) ==
  /\ p \in 1..Len(pipes)
  /\ pipes[p].phase = "agents"
  /\ a \in pipes[p].waiting
  /\ LET userMessage == pipes[p].um
         isFirst == IsFirst(firstResponseReceived, userMessage.id)
         n == messageIdCounter + 1
         message == [id |-> GenerateMessageId(n, stamp + 1), speaker |-> a,
                     content |-> ReplyContent, replyTo |-> userMessage.id,
                     status |-> IF isFirst THEN "accepted" ELSE "dropped"]
         d == IF ok THEN AddMessage(Dag, message) ELSE Dag
         left == pipes[p].waiting \ {a}
         pipe == IF left = {} THEN AfterAll(pipes[p], d.messages, agents)
                 ELSE IF ok /\ isFirst
                 THEN [AfterAll(pipes[p], d.messages, agents) EXCEPT !.waiting = left]
                 ELSE [pipes[p] EXCEPT !.waiting = left]
     IN
     /\ SetDag(d)
     /\ firstResponseReceived' = IF ok THEN firstResponseReceived \cup {userMessage.id}
                                 ELSE firstResponseReceived
     /\ messageIdCounter' = IF ok THEN n ELSE messageIdCounter
     /\ stamp' = IF ok THEN stamp + 1 ELSE stamp
     /\ currentConversationMessageCount' =
          IF pipe.phase = "bsum" THEN currentConversationMessageCount + 1
          ELSE currentConversationMessageCount
     /\ pipes' = [pipes EXCEPT ![p] = pipe]
  /\ UNCHANGED <<agents, currentBlock, nextSpeaker, initialUserMessage,
                 shouldStopConversation, stopReason, userIntent, verifierIntent,
                 persisted, verifyPending, verifyLaunched, notifiedBlock>>

\* The continuation of agent.respond in processSpecificAgent for agent a of
\* pipeline p, with the reply (ok) or a thrown error; the last of them also
\* runs broadcastToAgents up to its await of summarizeBlock.
BroadcastReply(p, a, ok) ==
  /\ p \in 1..Len(pipes)
  /\ pipes[p].phase = "agents"
  /\ a \in pipes[p].waiting
  /\ LET userMessage == pipes[p].um
         isFirst == IsFirst(firstResponseReceived, userMessage.id)
         n == messageIdCounter + 1
         message == [id |-> GenerateMessageId(n, stamp + 1), speaker |-> a,
                     content |-> ReplyContent, replyTo |-> userMessage.id,
                     status |-> IF isFirst THEN "accepted" ELSE "dropped"]
         d == IF ok THEN AddMessage(Dag, message) ELSE Dag
         left == pipes[p].waiting \ {a}
         pipe == IF left = {} THEN AfterAll(pipes[p], d.messages, agents)
                 ELSE [pipes[p] EXCEPT !.waiting = left]
     IN
     /\ SetDag(d)
     /\ firstResponseReceived' = IF ok THEN firstResponseReceived \cup {userMessage.id}
                                 ELSE firstResponseReceived
     /\ messageIdCounter' = IF ok THEN n ELSE messageIdCounter
     /\ stamp' = IF ok THEN stamp + 1 ELSE stamp
     /\ currentConversationMessageCount' =
          IF pipe.phase = "bsum" THEN currentConversationMessageCount + 1
          ELSE currentConversationMessageCount
     /\ pipes' = [pipes EXCEPT ![p] = pipe]
  /\ UNCHANGED <<agents, currentBlock, nextSpeaker, initialUserMessage,
                 shouldStopConversation, stopReason, userIntent, verifierIntent,
                 persisted, verifyPending, verifyLaunched, notifiedBlock>>

\* verify(initialUserMessage, ..., messageCount) up to its await, called for
\* message m: the level is chosen and the prompt is sent.
VerifyCall(m, messageCount) ==
  /\ verifyPending' = [verifyPending EXCEPT ![initialUserMessage] = @ + 1]
  /\ verifyLaunched' = Append(verifyLaunched,
       [id |-> m.id, messageCount |-> messageCount,
        level |-> EvaluationLevel(messageCount)])

\* this.verifier.verify(..., this.currentConversationMessageCount), not awaited.
LaunchVerify(m) == VerifyCall(m, currentConversationMessageCount)

\* The continuation of summarizeBlock in broadcastToAgents: the block update,
\* the launch of the verifier, the save, the return to the route handler and
\* processAgentResponsesQueue up to its first await.
BroadcastSummarized(p, resp) ==
  /\ p \in 1..Len(pipes)
  /\ pipes[p].phase = "bsum"
  /\ LET blockResult == SummarizeBlock(resp, currentBlock, pipes[p].accepted,
                                       pipes[p].availableSpeakers) IN
     /\ currentBlock' = blockResult.summary
     /\ notifiedBlock' = BlockEvent(blockResult)
     /\ nextSpeaker' = blockResult.next
     /\ LaunchVerify(pipes[p].accepted)
     /\ pipes' = [pipes EXCEPT ![p] =
          EnterRound(pipes[p], 0, pipes[p].accepted, shouldStopConversation,
                     blockResult.next, agents)]
  /\ UNCHANGED <<agents, dagVars, messageIdCounter, firstResponseReceived,
                 initialUserMessage, shouldStopConversation, stopReason, userIntent,
                 currentConversationMessageCount, verifierIntent, stamp>>
  /\ Save

LoopReply_CountFirst(p, ok) ==
  /\ p \in 1..Len(pipes)
  /\ pipes[p].phase = "agent"
  /\ LET n == messageIdCounter + 1
         agentMessage == [id |-> GenerateMessageId(n, stamp + 1),
                          speaker |-> pipes[p].agent, content |-> ReplyContent,
                          replyTo |-> pipes[p].lastMessage.id, status |-> "accepted"]
     IN
     IF ok
     THEN /\ SetDag(AddMessage(Dag, agentMessage))
          /\ messageIdCounter' = n
          /\ stamp' = stamp + 1
          /\ currentConversationMessageCount' = currentConversationMessageCount + 1
          /\ pipes' = [pipes EXCEPT ![p] =
               [@ EXCEPT !.phase = "lsum", !.agentMessage = agentMessage,
                         !.availableSpeakers = agents, !.appended = @ + 1,
                         !.sinceStop = IF @ >= 0 THEN @ + 1 ELSE @]]
     ELSE /\ pipes' = [pipes EXCEPT ![p] =
               [@ EXCEPT !.phase = "done", !.agent = "", !.exit = "error"]]
          /\ currentConversationMessageCount' = currentConversationMessageCount + 1
          /\ UNCHANGED <<dagVars, messageIdCounter, stamp>>
  /\ UNCHANGED <<agents, currentBlock, nextSpeaker, firstResponseReceived,
                 initialUserMessage, shouldStopConversation, stopReason, userIntent,
                 verifierIntent, persisted, verifyPending, verifyLaunched, notifiedBlock>>

\* The continuation of nextAgent.respond in the loop: append the reply as
\* accepted, count it and call summarizeBlock; a thrown error ends the loop.
LoopReply(p, ok) ==
  /\ p \in 1..Len(pipes)
  /\ pipes[p].phase = "agent"
  /\ LET n == messageIdCounter + 1
         agentMessage == [id |-> GenerateMessageId(n, stamp + 1),
                          speaker |-> pipes[p].agent, content |-> ReplyContent,
                          replyTo |-> pipes[p].lastMessage.id, status |-> "accepted"]
     IN
     IF ok
     THEN /\ SetDag(AddMessage(Dag, agentMessage))
          /\ messageIdCounter' = n
          /\ stamp' = stamp + 1
          /\ currentConversationMessageCount' = currentConversationMessageCount + 1
          /\ pipes' = [pipes EXCEPT ![p] =
               [@ EXCEPT !.phase = "lsum", !.agentMessage = agentMessage,
                         !.availableSpeakers = agents, !.appended = @ + 1,
                         !.sinceStop = IF @ >= 0 THEN @ + 1 ELSE @]]
     ELSE /\ pipes' = [pipes EXCEPT ![p] =
               [@ EXCEPT !.phase = "done", !.agent = "", !.exit = "error"]]
          /\ UNCHANGED <<dagVars, messageIdCounter, stamp, currentConversationMessageCount>>
  /\ UNCHANGED <<agents, currentBlock, nextSpeaker, firstResponseReceived,
                 initialUserMessage, shouldStopConversation, stopReason, userIntent,
                 verifierIntent, persisted, verifyPending, verifyLaunched, notifiedBlock>>

\* The continuation of summarizeBlock in the loop: the block update, the save,
\* the launch of the verifier, and the loop up to its next await or its end.
LoopSummarized(p, resp) ==
  /\ p \in 1..Len(pipes)
  /\ pipes[p].phase = "lsum"
  /\ LET blockResult == SummarizeBlock(resp, currentBlock, pipes[p].agentMessage,
                                       pipes[p].availableSpeakers) IN
     /\ currentBlock' = blockResult.summary
     /\ notifiedBlock' = BlockEvent(blockResult)
     /\ nextSpeaker' = blockResult.next
     /\ LaunchVerify(pipes[p].agentMessage)
     /\ pipes' = [pipes EXCEPT ![p] =
          EnterRound(pipes[p], pipes[p].round + 1, pipes[p].agentMessage,
                     shouldStopConversation, blockResult.next, agents)]
  /\ UNCHANGED <<agents, dagVars, messageIdCounter, firstResponseReceived,
                 initialUserMessage, shouldStopConversation, stopReason, userIntent,
                 currentConversationMessageCount, verifierIntent, stamp>>
  /\ Save

\* The continuation of a verify() call launched under initial message c, and
\* the then-callback that applies its result to the conversation.
VerifyResolve(c, resp) ==
  /\ verifyPending[c] > 0
  /\ verifyPending' = [verifyPending EXCEPT ![c] = @ - 1]
  /\ LET verification == Verify(resp, verifierIntent) IN
     /\ verifierIntent' = verification.intent
     /\ userIntent' = verification.user_intent
     /\ IF verification.should_stop
        THEN /\ shouldStopConversation' = TRUE
             /\ stopReason' = verification.stop_reason
             /\ nextSpeaker' = UserSentinel
             /\ pipes' = MarkStop(pipes, shouldStopConversation, TRUE)
             /\ notifiedBlock' = [summary |-> currentBlock, next |-> UserSentinel,
                                  recommendation_reason |-> "",
                                  stop_reason |-> verification.stop_reason,
                                  user_intent |-> verification.user_intent]
        ELSE UNCHANGED <<shouldStopConversation, stopReason, nextSpeaker, notifiedBlock,
                         pipes>>
  /\ UNCHANGED <<agents, dagVars, messageIdCounter, currentBlock, firstResponseReceived,
                 initialUserMessage, currentConversationMessageCount, persisted,
                 verifyLaunched, stamp>>

\* POST /:threadId/messages with action "reset": clearHistory.
ClearHistory ==
  /\ SetDag(EmptyDag)
  /\ messageIdCounter' = 0
  /\ currentBlock' = <<>>
  /\ nextSpeaker' = UserSentinel
  /\ firstResponseReceived' = {}
  /\ initialUserMessage' = ""
  /\ shouldStopConversation' = FALSE
  /\ stopReason' = ""
  /\ userIntent' = ""
  /\ currentConversationMessageCount' = 0
  /\ pipes' = MarkStop(pipes, shouldStopConversation, FALSE)
  /\ UNCHANGED <<agents, verifierIntent, verifyPending, verifyLaunched, stamp, notifiedBlock>>
  /\ Save

AddAgent_ThreadOnly(a) ==
  /\ a \notin agents
  /\ UNCHANGED worldVars

\* ThreadManager.addAgent / removeAgent, which end in World.updateAgents.
AddAgent(a) ==
  /\ a \notin agents
  /\ agents' = agents \cup {a}
  /\ UNCHANGED <<dagVars, messageIdCounter, currentBlock, nextSpeaker,
                 firstResponseReceived, initialUserMessage, shouldStopConversation,
                 stopReason, userIntent, currentConversationMessageCount,
                 verifierIntent, persisted, pipes, verifyPending, verifyLaunched,
                 stamp, notifiedBlock>>

RemoveAgent(a) ==
  /\ a \in agents
  /\ agents' = agents \ {a}
  /\ UNCHANGED <<dagVars, messageIdCounter, currentBlock, nextSpeaker,
                 firstResponseReceived, initialUserMessage, shouldStopConversation,
                 stopReason, userIntent, currentConversationMessageCount,
                 verifierIntent, persisted, pipes, verifyPending, verifyLaunched,
                 stamp, notifiedBlock>>

-----------------------------------------------------------------------------
(* ThreadManager                                                           *)

ThreadIds == {"t1", "t2"}

\* The thread whose World the conversation variables above describe.
ConvId == "t1"

ThreadNames == {"n1", "n2"}

\* AgentPersona: the name and the endpoint reference.
PersonaOf(a) == [name |-> a, a2aUrl |-> IF a = "A" THEN "uA" ELSE "uB"]

\* A second endpoint that presents itself under the name of the first.
Twin == [name |-> "A", a2aUrl |-> "uA2"]

Personas == {PersonaOf(a) : a \in AgentNames} \cup {Twin}

AgentIds == {p.name : p \in Personas} \cup {p.a2aUrl : p \in Personas}

\* The rosters a client supplies to createThread.
SuppliedRosters ==
  {<<>>, <<PersonaOf("B")>>, <<PersonaOf("A"), Twin>>}

NoThread == [id |-> "none"]

NoWorld == [id |-> "none"]

NoData == [id |-> "none"]

\* personas.map(persona => new Agent(persona)): the agents by name, in order.
Names(personas) == [i \in 1..Len(personas) |-> personas[i].name]

NameSet(personas) == {personas[i].name : i \in 1..Len(personas)}

\* new World(apiUrl, model, threadId, agents): what the registry sees of it.
NewWorld(personas) ==
  [agents |-> Names(personas), messages |-> <<>>, currentBlock |-> <<>>,
   nextSpeaker |-> UserSentinel, messageIdCounter |-> 0]

\* The data saveMessagesToRedis writes for such a World.
WorldData(w) ==
  [messages |-> w.messages, currentBlock |-> w.currentBlock,
   nextSpeaker |-> w.nextSpeaker, messageIdCounter |-> w.messageIdCounter]

\* new World(...) followed by loadMessagesFromRedis(threadId).
LoadWorld(personas, data) ==
  IF data = NoData THEN NewWorld(personas)
  ELSE [agents |-> Names(personas), messages |-> data.messages,
        currentBlock |-> data.currentBlock, nextSpeaker |-> data.nextSpeaker,
        messageIdCounter |-> data.messageIdCounter]

\* How far a sequence of awaited store commands gets before one throws.
StoreOutcomes == {"done", "first", "none"}

\* saveThreadToRedis: set thread:<id>, then sAdd threads:list.
SaveThreadToRedis(st, t, thread, outcome) ==
  CASE outcome = "done" -> [st EXCEPT !.thread[t] = thread, !.list = @ \cup {t}]
    [] outcome = "first" -> [st EXCEPT !.thread[t] = thread, !.faults = @ + 1]
    [] OTHER -> [st EXCEPT !.faults = @ + 1]

\* The store commands of deleteThread: del thread:<id>, del messages:<id>,
\* sRem threads:list.
DeleteFromRedis(st, t, outcome) ==
  CASE outcome = "done" -> [st EXCEPT !.thread[t] = NoThread, !.messages[t] = NoData,
                                      !.list = @ \ {t}]
    [] outcome = "first" -> [st EXCEPT !.thread[t] = NoThread, !.faults = @ + 1]
    [] OTHER -> [st EXCEPT !.faults = @ + 1]

\* faults counts the store commands that threw.
EmptyStore ==
  [list |-> {}, thread |-> [t \in ThreadIds |-> NoThread],
   messages |-> [t \in ThreadIds |-> NoData], faults |-> 0]

NoReturn == TRUE

\* A server that has just started on an empty store.
RegistryInit ==
  /\ threads = [t \in ThreadIds |-> NoThread]
  /\ worlds = [t \in ThreadIds |-> NoWorld]
  /\ stored = EmptyStore
  /\ returned = NoReturn

\* The values of Date.now() in a run of RegistrySpec.
MaxTime == 1

Times == 0..MaxTime

\* createThread(name, agents); t is the uuid, which no thread ever had, and
\* now is Date.now().
CreateThread(t, name, roster, now, outcome) ==
  LET thread == [name |-> name, agents |-> roster, updatedAt |-> now] IN
  /\ threads[t] = NoThread /\ stored.thread[t] = NoThread
  /\ t \notin stored.list /\ stored.messages[t] = NoData
  /\ threads' = [threads EXCEPT ![t] = thread]
  /\ worlds' = [worlds EXCEPT ![t] = NewWorld(roster)]
  /\ stored' = SaveThreadToRedis(stored, t, thread, outcome)
  /\ returned' = TRUE

DeleteThread_KeepWorld(t, outcome) ==
  LET deleted == threads[t] # NoThread IN
  /\ threads' = [threads EXCEPT ![t] = NoThread]
  /\ worlds' = worlds
  /\ stored' = IF deleted THEN DeleteFromRedis(stored, t, outcome) ELSE stored
  /\ returned' = deleted

\* deleteThread(threadId).
DeleteThread(t, outcome) ==
  LET deleted == threads[t] # NoThread IN
  /\ threads' = [threads EXCEPT ![t] = NoThread]
  /\ worlds' = IF deleted THEN [worlds EXCEPT ![t] = NoWorld] ELSE worlds
  /\ stored' = IF deleted THEN DeleteFromRedis(stored, t, outcome) ELSE stored
  /\ returned' = deleted

\* updateThreadName(threadId, name).
UpdateThreadName(t, name, now, outcome) ==
  IF threads[t] = NoThread
  THEN /\ returned' = FALSE
       /\ UNCHANGED <<threads, worlds, stored>>
  ELSE LET thread == [threads[t] EXCEPT !.name = name, !.updatedAt = now] IN
       /\ threads' = [threads EXCEPT ![t] = thread]
       /\ stored' = SaveThreadToRedis(stored, t, thread, outcome)
       /\ returned' = TRUE
       /\ UNCHANGED worlds

\* world.updateAgents(thread.agents), if the thread has a World.
UpdateAgents(ws, t, personas) ==
  IF ws[t] = NoWorld THEN ws ELSE [ws EXCEPT ![t].agents = Names(personas)]

AddAgentTo_NoCheck(t, agent, now, outcome) ==
  IF threads[t] = NoThread
  THEN /\ returned' = FALSE
       /\ UNCHANGED <<threads, worlds, stored>>
  ELSE LET thread == [threads[t] EXCEPT !.agents = Append(@, agent),
                                         !.updatedAt = now] IN
       /\ threads' = [threads EXCEPT ![t] = thread]
       /\ worlds' = UpdateAgents(worlds, t, thread.agents)
       /\ stored' = SaveThreadToRedis(stored, t, thread, outcome)
       /\ returned' = TRUE

\* ThreadManager.addAgent(threadId, agent).
AddAgentTo(t, agent, now, outcome) ==
  IF threads[t] = NoThread
       \/ \E i \in 1..Len(threads[t].agents) : threads[t].agents[i].a2aUrl = agent.a2aUrl
  THEN /\ returned' = FALSE
       /\ UNCHANGED <<threads, worlds, stored>>
  ELSE LET thread == [threads[t] EXCEPT !.agents = Append(@, agent),
                                         !.updatedAt = now] IN
       /\ threads' = [threads EXCEPT ![t] = thread]
       /\ worlds' = UpdateAgents(worlds, t, thread.agents)
       /\ stored' = SaveThreadToRedis(stored, t, thread, outcome)
       /\ returned' = TRUE

\* ThreadManager.removeAgent(threadId, agentId).
RemoveAgentFrom(t, agentId, now, outcome) ==
  LET kept == SelectSeq(threads[t].agents,
                        LAMBDA a : a.name # agentId /\ a.a2aUrl # agentId) IN
  IF threads[t] = NoThread \/ Len(kept) = Len(threads[t].agents)
  THEN /\ returned' = FALSE
       /\ UNCHANGED <<threads, worlds, stored>>
  ELSE LET thread == [threads[t] EXCEPT !.agents = kept, !.updatedAt = now] IN
       /\ threads' = [threads EXCEPT ![t] = thread]
       /\ worlds' = UpdateAgents(worlds, t, thread.agents)
       /\ stored' = SaveThreadToRedis(stored, t, thread, outcome)
       /\ returned' = TRUE

\* Human messages posted to a thread in a run of RegistrySpec.
MaxPosts == 1

\* POST /:threadId/messages on a thread without agents, as the registry sees
\* it: addUserMessage appends the message and saves; no agent is called.
Post(t, content, outcome) ==
  /\ worlds[t] # NoWorld
  /\ worlds[t].agents = <<>>
  /\ Len(worlds[t].messages) < MaxPosts
  /\ LET w == [worlds[t] EXCEPT
                 !.messageIdCounter = @ + 1,
                 !.messages = Append(@, [id |-> GenerateMessageId(worlds[t].messageIdCounter + 1,
                                                                  worlds[t].messageIdCounter + 1),
                                         speaker |-> "User", content |-> content,
                                         replyTo |-> NoId, status |-> "unset"])]
     IN
     /\ worlds' = [worlds EXCEPT ![t] = w]
     /\ stored' = IF outcome = "done" THEN [stored EXCEPT !.messages[t] = WorldData(w)]
                  ELSE [stored EXCEPT !.faults = @ + 1]
  /\ returned' = TRUE
  /\ UNCHANGED threads

\* The listed threads that have data in the store.
Loadable == {t \in stored.list : stored.thread[t] # NoThread}

\* A restart of the server: loadThreadsFromRedis on empty maps. `loaded` are
\* the listed threads read before a store command threw, if one did.
Rehydrate(loaded) ==
  /\ loaded \subseteq Loadable
  /\ threads' = [t \in ThreadIds |-> IF t \in loaded THEN stored.thread[t] ELSE NoThread]
  /\ worlds' = [t \in ThreadIds |->
                  IF t \in loaded
                  THEN LoadWorld(stored.thread[t].agents, stored.messages[t])
                  ELSE NoWorld]
  /\ returned' = TRUE
  /\ stored' = IF loaded = Loadable THEN stored ELSE [stored EXCEPT !.faults = @ + 1]

-----------------------------------------------------------------------------
(* Specifications                                                          *)

\* Message ids generated in a run of Spec.
MaxIds == 4

\* Message ids generated in a run of ResetSpec.
MaxIdsReset == 3

\* No job carries a call yet.
NoCall == [kind |-> "none", c |-> ""]

\* The roster of personas a set of agent names stands for.
RosterOf(names) ==
  CHOOSE r \in [1..Cardinality(names) -> {PersonaOf(a) : a \in names}] :
    NameSet(r) = names

\* The registry after createThread made the thread of the conversation with
\* its roster.
ConvInit ==
  LET thread == [name |-> "n1", agents |-> RosterOf(agents), updatedAt |-> 0] IN
  /\ threads = [t \in ThreadIds |-> IF t = ConvId THEN thread ELSE NoThread]
  /\ worlds = [t \in ThreadIds |->
                 IF t = ConvId THEN NewWorld(thread.agents) ELSE NoWorld]
  /\ stored = SaveThreadToRedis(EmptyStore, ConvId, thread, "done")
  /\ returned = TRUE

Init == SchedInit /\ WorldInit /\ calls = [j \in JobIds |-> NoCall] /\ ConvInit

\* The human sends each text once.
Fresh(c) == \A k \in 1..Len(pipes) : pipes[k].um.content # c

\* The scheduler takes no part in the step.
SchedIdle == UNCHANGED <<schedVars, calls>>

\* The model calls answer whenever they are made: the scheduler is left out.
Idle == UNCHANGED <<schedVars, calls, regVars>>

\* The steps of the turn pipelines, with at most cap message ids generated.
Turn(cap) ==
  \/ \E c \in UserContents : Fresh(c) /\ stamp < cap /\ SendMessage(c) /\ Idle
  \/ \E p \in 1..Len(pipes), a \in AgentNames :
       stamp < cap /\ BroadcastReply(p, a, TRUE) /\ Idle
  \/ \E p \in 1..Len(pipes), a \in AgentNames : BroadcastReply(p, a, FALSE) /\ Idle
  \/ \E p \in 1..Len(pipes), resp \in BriefResponses :
       BroadcastSummarized(p, resp) /\ Idle
  \/ \E p \in 1..Len(pipes) : stamp < cap /\ LoopReply(p, TRUE) /\ Idle
  \/ \E p \in 1..Len(pipes) : LoopReply(p, FALSE) /\ Idle
  \/ \E p \in 1..Len(pipes), resp \in BriefResponses : LoopSummarized(p, resp) /\ Idle
  \/ \E c \in UserContents \cup {""}, resp \in VerifyResponses :
       VerifyResolve(c, resp) /\ Idle

\* The conversation under any interleaving of human messages, agent replies
\* and model answers.
Next == Turn(MaxIds)

Spec == Init /\ [][Next]_vars

\* Every agent call and every summarizer call of the turn eventually returns
\* or fails.
TurnFairness ==
  /\ WF_vars(\E a \in AgentNames, ok \in BOOLEAN : BroadcastReply(1, a, ok) /\ Idle)
  /\ WF_vars(\E resp \in BriefResponses : BroadcastSummarized(1, resp) /\ Idle)
  /\ WF_vars(\E ok \in BOOLEAN : LoopReply(1, ok) /\ Idle)
  /\ WF_vars(\E resp \in BriefResponses : LoopSummarized(1, resp) /\ Idle)

\* The same, and resets at any moment.
ResetNext == Turn(MaxIdsReset) \/ (ClearHistory /\ Idle)

ResetSpec == Init /\ [][ResetNext]_vars

\* One human message and the whole of its turn pipeline, while agents join
\* and leave the roster.
LoopNext ==
  \/ \E c \in UserContents : pipes = <<>> /\ SendMessage(c) /\ Idle
  \/ \E a \in AgentNames, ok \in BOOLEAN : BroadcastReply(1, a, ok) /\ Idle
  \/ \E resp \in BriefResponses : BroadcastSummarized(1, resp) /\ Idle
  \/ \E ok \in BOOLEAN : LoopReply(1, ok) /\ Idle
  \/ \E resp \in BriefResponses : LoopSummarized(1, resp) /\ Idle
  \/ \E c \in UserContents, resp \in VerifyResponses : VerifyResolve(c, resp) /\ Idle
  \/ \E a \in AgentNames :
       AddAgent(a) /\ AddAgentTo(ConvId, PersonaOf(a), 0, "done") /\ SchedIdle
  \/ \E a \in AgentNames :
       RemoveAgent(a) /\ RemoveAgentFrom(ConvId, a, 0, "done") /\ SchedIdle

LoopSpec == Init /\ [][LoopNext]_vars

\* One human message and the whole of its turn pipeline on a fixed roster.
TermNext ==
  \/ \E c \in UserContents : pipes = <<>> /\ SendMessage(c) /\ Idle
  \/ \E a \in AgentNames, ok \in BOOLEAN : BroadcastReply(1, a, ok) /\ Idle
  \/ \E resp \in BriefResponses : BroadcastSummarized(1, resp) /\ Idle
  \/ \E ok \in BOOLEAN : LoopReply(1, ok) /\ Idle
  \/ \E resp \in BriefResponses : LoopSummarized(1, resp) /\ Idle
  \/ \E c \in UserContents, resp \in VerifyResponses : VerifyResolve(c, resp) /\ Idle

\* That turn when every call it waits for eventually returns or fails.
TermSpec == Init /\ [][TermNext]_vars /\ TurnFairness

\* DELETE /:threadId for the thread of the conversation: deleteThread, whose
\* del of messages:<threadId> removes the saved snapshot. The World object
\* stays referenced by the turns in flight.
DeleteConv ==
  /\ DeleteThread(ConvId, "done")
  /\ persisted' = IF threads[ConvId] # NoThread THEN NoSnapshot ELSE persisted
  /\ UNCHANGED <<agents, dagVars, messageIdCounter, currentBlock, nextSpeaker,
                 firstResponseReceived, initialUserMessage, shouldStopConversation,
                 stopReason, userIntent, currentConversationMessageCount,
                 verifierIntent, pipes, verifyPending, verifyLaunched, stamp,
                 notifiedBlock>>

\* One human message and its turn pipeline, and the delete of the thread at
\* any moment; a deleted thread takes no message.
DeleteNext ==
  \/ \E c \in UserContents :
       pipes = <<>> /\ worlds[ConvId] # NoWorld /\ SendMessage(c) /\ Idle
  \/ \E a \in AgentNames, ok \in BOOLEAN : BroadcastReply(1, a, ok) /\ Idle
  \/ \E resp \in BriefResponses : BroadcastSummarized(1, resp) /\ Idle
  \/ \E ok \in BOOLEAN : LoopReply(1, ok) /\ Idle
  \/ \E resp \in BriefResponses : LoopSummarized(1, resp) /\ Idle
  \/ \E c \in UserContents, resp \in VerifyResponses : VerifyResolve(c, resp) /\ Idle
  \/ DeleteConv /\ SchedIdle

DeleteSpec == Init /\ [][DeleteNext]_vars

\* The turn pipeline of one human message sent to a thread whose roster is
\* agent A alone, while agents join and leave the roster during the turn.
RosterNext ==
  \/ \E c \in UserContents : pipes = <<>> /\ SendMessage(c) /\ Idle
  \/ \E a \in AgentNames, ok \in BOOLEAN : BroadcastReply(1, a, ok) /\ Idle
  \/ \E resp \in BriefResponses : BroadcastSummarized(1, resp) /\ Idle
  \/ \E ok \in BOOLEAN : LoopReply(1, ok) /\ Idle
  \/ \E resp \in BriefResponses : LoopSummarized(1, resp) /\ Idle
  \/ \E c \in UserContents, resp \in VerifyResponses : VerifyResolve(c, resp) /\ Idle
  \/ \E a \in AgentNames :
       /\ pipes # <<>>
       /\ AddAgent(a) /\ AddAgentTo(ConvId, PersonaOf(a), 0, "done") /\ SchedIdle
  \/ \E a \in AgentNames :
       /\ pipes # <<>>
       /\ RemoveAgent(a) /\ RemoveAgentFrom(ConvId, a, 0, "done") /\ SchedIdle

InitRoster == Init /\ agents = {"A"}

RosterSpec == InitRoster /\ [][RosterNext]_vars

\* Message ids generated in a run of SummarySpec.
MaxIdsSummary == 4

\* One human message and its turn pipeline, with every answer the model can
\* give to the summarizer: unparsable, without summary, brief or too long.
SummaryNext ==
  \/ \E c \in UserContents : pipes = <<>> /\ SendMessage(c) /\ Idle
  \/ \E a \in AgentNames, ok \in BOOLEAN :
       stamp < MaxIdsSummary /\ BroadcastReply(1, a, ok) /\ Idle
  \/ \E resp \in SummaryResponses : BroadcastSummarized(1, resp) /\ Idle
  \/ \E ok \in BOOLEAN : stamp < MaxIdsSummary /\ LoopReply(1, ok) /\ Idle
  \/ \E resp \in SummaryResponses : LoopSummarized(1, resp) /\ Idle
  \/ \E c \in UserContents, resp \in VerifyResponses : VerifyResolve(c, resp) /\ Idle

SummarySpec == Init /\ [][SummaryNext]_vars

\* The scheduler's part of a continuation of the conversation: job `done`
\* (0: none) settles with `result` and frees its slot, which starts the next
\* queued job; then the continuation runs and submits `new` (NoCall: nothing).
CallStep(done, result, new) ==
  LET submits == new # NoCall
      s0 == IF done = 0 THEN SchedState ELSE ReleaseSlot(SchedState, done)
      p0 == IF done = 0 THEN promise ELSE Settle(promise, done, result)
  IN
  /\ done # 0 => done \in inflight
  /\ submits => nextJob <= MaxCalls
  /\ SetSched(IF submits THEN Submit(s0, nextJob) ELSE s0)
  /\ promise' = IF submits THEN [p0 EXCEPT ![nextJob] = "pending"] ELSE p0
  /\ callResult' = IF done = 0 THEN callResult ELSE [callResult EXCEPT ![done] = result]
  /\ settleCount' = IF done = 0 THEN settleCount ELSE [settleCount EXCEPT ![done] = @ + 1]
  /\ nextJob' = IF submits THEN nextJob + 1 ELSE nextJob
  /\ calls' = IF submits THEN [calls EXCEPT ![nextJob] = new] ELSE calls
  /\ UNCHANGED regVars

\* The answers of the summarizer's model a call that ended with `result` can
\* carry: a rejected promise takes the catch branch like an unparsable text.
SummaryAnswers(result) ==
  IF result = "ok" THEN BriefResponses ELSE {resp \in BriefResponses : ~resp.parsed}

VerifyAnswers(result) ==
  IF result = "ok" THEN VerifyResponses ELSE {resp \in VerifyResponses : ~resp.parsed}

\* One human message and its turn pipeline, with the calls of the summarizer
\* and of the verifier going through the RequestManager (the agents answer
\* over A2A, outside of it).
CallNext ==
  \/ \E c \in UserContents : pipes = <<>> /\ SendMessage(c) /\ Idle
  \/ \E a \in AgentNames, ok \in BOOLEAN :
       /\ BroadcastReply(1, a, ok)
       /\ CallStep(0, "", IF pipes'[1].phase = "bsum"
                          THEN [kind |-> "bsum", c |-> initialUserMessage] ELSE NoCall)
  \/ \E j \in JobIds, r \in Responses :
       /\ calls[j].kind = "bsum"
       /\ \E resp \in SummaryAnswers(ExecuteRequest(r)) : BroadcastSummarized(1, resp)
       /\ CallStep(j, ExecuteRequest(r), [kind |-> "verify", c |-> initialUserMessage])
  \/ \E ok \in BOOLEAN :
       /\ LoopReply(1, ok)
       /\ CallStep(0, "", IF ok THEN [kind |-> "lsum", c |-> initialUserMessage] ELSE NoCall)
  \/ \E j \in JobIds, r \in Responses :
       /\ calls[j].kind = "lsum"
       /\ \E resp \in SummaryAnswers(ExecuteRequest(r)) : LoopSummarized(1, resp)
       /\ CallStep(j, ExecuteRequest(r), [kind |-> "verify", c |-> initialUserMessage])
  \/ \E j \in JobIds, r \in Responses :
       /\ calls[j].kind = "verify"
       /\ j \in inflight
       /\ \E resp \in VerifyAnswers(ExecuteRequest(r)) : VerifyResolve(calls[j].c, resp)
       /\ CallStep(j, ExecuteRequest(r), NoCall)

CallSpec == Init /\ [][CallNext]_vars

\* The message counts verify() is called with in a run of VerifierSpec.
MaxCount == 15

\* The calls of verify() in a run of VerifierSpec.
MaxVerifyCalls == 2

\* The Verifier called by a client with any message count.
VerifierNext ==
  \/ \E n \in 0..MaxCount :
       /\ Len(verifyLaunched) < MaxVerifyCalls
       /\ VerifyCall(NoMsg, n)
       /\ UNCHANGED <<agents, dagVars, messageIdCounter, currentBlock, nextSpeaker,
                      firstResponseReceived, initialUserMessage, shouldStopConversation,
                      stopReason, userIntent, currentConversationMessageCount,
                      verifierIntent, persisted, pipes, stamp, notifiedBlock>>
       /\ Idle
  \/ \E resp \in VerifyResponses : VerifyResolve("", resp) /\ Idle

\* The conversations stand still.
Frozen == UNCHANGED <<schedVars, worldVars, calls>>

\* Personas in a roster in a run of RegistrySpec.
MaxRoster == 2

\* Store commands that throw in a run of RegistrySpec.
MaxFaults == 1

\* The outcomes the store still has in the run.
Outcomes == IF stored.faults < MaxFaults THEN StoreOutcomes ELSE {"done"}

\* The thread registry under any sequence of its operations and restarts;
\* the clock stands still at 0.
RegistryNext ==
  \/ \E t \in ThreadIds, name \in ThreadNames, roster \in SuppliedRosters,
        o \in Outcomes : CreateThread(t, name, roster, 0, o) /\ Frozen
  \/ \E t \in ThreadIds, o \in Outcomes : DeleteThread(t, o) /\ Frozen
  \/ \E t \in ThreadIds, name \in ThreadNames, o \in Outcomes :
       UpdateThreadName(t, name, 0, o) /\ Frozen
  \/ \E t \in ThreadIds, agent \in Personas, o \in Outcomes :
       /\ threads[t] # NoThread => Len(threads[t].agents) < MaxRoster
       /\ AddAgentTo(t, agent, 0, o) /\ Frozen
  \/ \E t \in ThreadIds, agentId \in AgentIds, o \in Outcomes :
       RemoveAgentFrom(t, agentId, 0, o) /\ Frozen
  \/ \E t \in ThreadIds, o \in Outcomes : Post(t, "q1", o) /\ Frozen
  \/ \E loaded \in SUBSET ThreadIds :
       /\ loaded # Loadable => stored.faults < MaxFaults
       /\ Rehydrate(loaded) /\ Frozen

InitRegistry ==
  /\ SchedInit /\ WorldInit /\ agents = {}
  /\ calls = [j \in JobIds |-> NoCall]
  /\ RegistryInit

RegistrySpec == InitRegistry /\ [][RegistryNext]_vars

\* The operations on threads and their rosters at any time of the clock, on
\* a store that never fails.
RosterOpsNext ==
  \/ \E t \in ThreadIds, name \in ThreadNames, roster \in SuppliedRosters, now \in Times :
       CreateThread(t, name, roster, now, "done") /\ Frozen
  \/ \E t \in ThreadIds : DeleteThread(t, "done") /\ Frozen
  \/ \E t \in ThreadIds, name \in ThreadNames, now \in Times :
       UpdateThreadName(t, name, now, "done") /\ Frozen
  \/ \E t \in ThreadIds, agent \in Personas, now \in Times :
       /\ threads[t] # NoThread => Len(threads[t].agents) < MaxRoster
       /\ AddAgentTo(t, agent, now, "done") /\ Frozen
  \/ \E t \in ThreadIds, agentId \in AgentIds, now \in Times :
       RemoveAgentFrom(t, agentId, now, "done") /\ Frozen

RosterOpsSpec == InitRegistry /\ [][RosterOpsNext]_vars

\* The singleton scheduler before any thread has agents.
InitSched == Init /\ agents = {}

VerifierSpec == InitSched /\ [][VerifierNext]_vars

\* The scheduler under any interleaving of submissions and completions.
SchedSpec == InitSched /\ [][SchedNext]_vars

\* Every dispatched external call eventually returns or fails.
FairSchedSpec ==
  SchedSpec /\ \A j \in JobIds : WF_vars(\E resp \in Responses : Complete(j, resp))

-----------------------------------------------------------------------------
(* Claims about the history and the broadcast                              *)

Indices == 1..Len(messages)

\* C1: among all messages that share the same parent (replyTo), at most one
\* has status accepted.
C1_SingleAcceptance ==
  \A i, j \in Indices :
    (/\ messages[i].replyTo # NoId
     /\ messages[i].replyTo = messages[j].replyTo
     /\ messages[i].status = "accepted"
     /\ messages[j].status = "accepted") => i = j

\* The replies stored for the human message of pipeline p, oldest first.
RepliesTo(p) == SelectSeq(messages, LAMBDA m : m.replyTo = pipes[p].um.id)

\* C2: in a broadcast, the first reply to complete for a human message is
\* appended as accepted and every later reply for the same human message is
\* appended as dropped, each with the human message as its parent.
C2_BroadcastFirstWins ==
  [][\A p \in 1..Len(pipes), a \in AgentNames :
       BroadcastReply(p, a, TRUE) =>
         LET m == messages'[Len(messages')] IN
         /\ Len(messages') = Len(messages) + 1
         /\ m.speaker = a
         /\ m.replyTo = pipes[p].um.id
         /\ m.status = IF RepliesTo(p) = <<>> THEN "accepted" ELSE "dropped"]_vars

\* Following replyTo from message id for at most fuel steps leaves the
\* stored messages (the walk up ends).
RECURSIVE ReachesTop(_, _, _)
ReachesTop(msgs, id, fuel) ==
  IF id = NoId \/ GetMessage(msgs, id) = NoMsg THEN TRUE
  ELSE IF fuel = 0 THEN FALSE
  ELSE ReachesTop(msgs, GetMessage(msgs, id).replyTo, fuel - 1)

Acyclic(msgs) ==
  \A i \in 1..Len(msgs) : ReachesTop(msgs, msgs[i].id, Len(msgs))

NoRepeats(seq) ==
  \A i, j \in 1..Len(seq) : seq[i].id = seq[j].id => i = j

\* C3: getMainHistory terminates, visits no message twice and returns at
\* most as many messages as are stored; the parent relation is acyclic.
C3_Mainline ==
  LET run == MainHistoryRun(Dag) IN
  /\ run.done
  /\ NoRepeats(run.history)
  /\ Len(run.history) <= Len(messages)
  /\ \A i \in 1..Len(run.history) : GetMessage(messages, run.history[i].id) = run.history[i]
  /\ Acyclic(messages)

\* A mainline of a human message and its accepted reply, beside a dropped reply.
C3_Witness ==
  /\ Len(GetMainHistory(Dag)) = 2
  /\ Len(messages) = 3
  /\ \E i \in Indices : messages[i].status = "dropped"

-----------------------------------------------------------------------------
(* Claims about the scheduler                                              *)

Queued == {queue[i] : i \in 1..Len(queue)}

Settled(j) == promise[j] \in {"resolved", "rejected"}

\* C4: the number of active calls is between 0 and MAX_CONCURRENT_REQUESTS.
C4_ActiveBound ==
  /\ activeRequests >= 0
  /\ activeRequests <= MAX_CONCURRENT_REQUESTS
  /\ activeRequests = Cardinality(inflight)

\* All slots taken and a job waiting, after a failure and a success.
C4_Witness ==
  /\ activeRequests = MAX_CONCURRENT_REQUESTS
  /\ queue # <<>>
  /\ \E j, k \in JobIds : promise[j] = "rejected" /\ promise[k] = "resolved"

\* C5: with every dispatched call eventually returning or failing, every
\* submitted job is eventually dispatched and its promise settled, and no job
\* is dispatched or settled twice.
C5_ExactlyOnce ==
  /\ [](\A j \in JobIds : settleCount[j] <= 1 /\ (Settled(j) <=> settleCount[j] = 1))
  /\ \A j \in JobIds :
       (promise[j] = "pending") ~> (dispatchCount[j] = 1 /\ settleCount[j] = 1 /\ Settled(j))

\* Every job was submitted and settled, the last ones after waiting in the queue.
C5_Witness ==
  /\ nextJob > MaxJobs
  /\ \A j \in 1..(nextJob - 1) : Settled(j) /\ settleCount[j] = 1
  /\ queue = <<>> /\ activeRequests = 0

\* C6: between scheduler steps, a job waits in the queue only while all
\* MAX_CONCURRENT_REQUESTS slots are taken; with more than that many jobs
\* outstanding exactly that many are in flight.
C6_WorkConserving ==
  /\ queue # <<>> => Cardinality(inflight) = MAX_CONCURRENT_REQUESTS
  /\ Len(queue) + Cardinality(inflight) > MAX_CONCURRENT_REQUESTS
       => Cardinality(inflight) = MAX_CONCURRENT_REQUESTS

\* A completion has handed its slot to a queued job while another job waits.
C6_Witness ==
  /\ Len(queue) >= 1
  /\ Cardinality(inflight) = MAX_CONCURRENT_REQUESTS
  /\ \E j \in JobIds : Settled(j)
  /\ Len(dispatchLog) > MAX_CONCURRENT_REQUESTS

\* C7: jobs are dispatched in the order they were submitted (jobs are
\* numbered in submission order), whatever order the calls complete in.
C7_FifoDispatch ==
  /\ \A i \in 1..Len(dispatchLog) : dispatchLog[i] = i
  /\ \A i \in 1..Len(queue) : queue[i] = Len(dispatchLog) + i

\* A later job completed before an earlier one, and queued jobs were started since.
C7_Witness ==
  /\ Len(dispatchLog) > MAX_CONCURRENT_REQUESTS
  /\ \E a, b \in JobIds : a < b /\ a \in inflight /\ Settled(b)

\* A failure went to its own caller only, was not retried and freed its slot.
Isolated ==
  /\ \A j \in JobIds :
       /\ callResult[j] = "fail" =>
            promise[j] = "rejected" /\ j \notin inflight /\ j \notin Queued
       /\ promise[j] = "rejected" => callResult[j] = "fail"
       /\ promise[j] = "resolved" => callResult[j] = "ok"
       /\ dispatchCount[j] <= 1
  /\ activeRequests = Cardinality(inflight)

\* C8: a failed call rejects exactly the promise of the job it was made for,
\* the job is not retried or queued again, its slot is released, and every
\* other queued or active job is still dispatched and settled with its own
\* result.
C8_ErrorIsolation ==
  /\ []Isolated
  /\ \A j \in JobIds :
       ((promise[j] = "pending" /\ \E k \in JobIds : callResult[k] = "fail")
          ~> (Settled(j) /\ callResult[j] # "none" /\ dispatchCount[j] = 1))

\* A job failed, and jobs that were queued or active then have since been
\* resolved.
C8_Witness ==
  /\ callResult[1] = "fail"
  /\ promise[1] = "rejected"
  /\ nextJob > MaxJobs
  /\ \A j \in 2..(nextJob - 1) : promise[j] = "resolved"

-----------------------------------------------------------------------------
(* Claims about the sequential loop                                        *)

\* C9: one invocation of processAgentResponsesQueue calls agents, and
\* appends messages, at most maxRounds times.
C9_RoundLimit ==
  \A p \in 1..Len(pipes) :
    /\ pipes[p].invoked <= maxRounds
    /\ pipes[p].appended <= maxRounds
    /\ pipes[p].round <= maxRounds

\* A loop that ran all its rounds and ended at the limit.
C9_Witness ==
  \E p \in 1..Len(pipes) :
    /\ pipes[p].phase = "done"
    /\ pipes[p].exit = "limit"
    /\ pipes[p].appended = maxRounds

\* C10: the loop never calls the speaker of its last message, so no message
\* the loop appends has the speaker of its parent message.
C10_AntiRepetition ==
  /\ \A p \in 1..Len(pipes) :
       /\ pipes[p].phase = "agent" => pipes[p].agent # pipes[p].lastMessage.speaker
       /\ pipes[p].phase = "lsum" =>
            /\ pipes[p].agentMessage.replyTo = pipes[p].lastMessage.id
            /\ pipes[p].agentMessage.speaker # pipes[p].lastMessage.speaker
       /\ pipes[p].exit = "repeat" => pipes[p].invoked = pipes[p].appended
  /\ \A i \in Indices :
       LET parent == GetMessage(messages, messages[i].replyTo) IN
       parent # NoMsg => messages[i].speaker # parent.speaker

\* The summarizer recommended the author of the loop's last message, after
\* the loop had appended a message, and the loop ended there.
C10_Witness ==
  \E p \in 1..Len(pipes) :
    /\ pipes[p].phase = "done"
    /\ pipes[p].exit = "repeat"
    /\ pipes[p].appended >= 1
    /\ nextSpeaker.name = pipes[p].lastMessage.speaker

-----------------------------------------------------------------------------
(* Claims about the policy of the loop and the reset                       *)

\* Pipeline p passes the top of an iteration of the for loop in this step.
AtLoopHead(p) ==
  /\ pipes[p].phase \in {"bsum", "lsum"}
  /\ pipes'[p].phase \notin {"bsum", "lsum"}

\* C11: at the top of a round, if the stop flag is set, or the recommended
\* next speaker is the human sentinel, or it is not in the current roster,
\* the loop ends there: no agent is invoked, no message is appended, and the
\* summary, next speaker and counters stay as the summarizer's answer left
\* them; a loop that ended does nothing more.
C11_PolicyHalts ==
  [][\A p \in 1..Len(pipes) :
       /\ (/\ AtLoopHead(p)
           /\ \/ shouldStopConversation'
              \/ nextSpeaker'.id = "user"
              \/ nextSpeaker'.name \notin agents')
          => /\ pipes'[p].phase = "done"
             /\ pipes'[p].agent = ""
             /\ pipes'[p].invoked = pipes[p].invoked
             /\ pipes'[p].appended = pipes[p].appended
             /\ messages' = messages
             /\ messageIdCounter' = messageIdCounter
             /\ currentConversationMessageCount' = currentConversationMessageCount
             /\ currentBlock' = notifiedBlock'.summary
             /\ nextSpeaker' = notifiedBlock'.next
       /\ pipes[p].phase = "done" => pipes'[p] = pipes[p]]_vars

\* A loop that appended a message and then ended because the recommended
\* agent had left the roster while the summarizer was answering.
C11_Witness ==
  \E p \in 1..Len(pipes) :
    /\ pipes[p].phase = "done"
    /\ pipes[p].exit = "miss"
    /\ pipes[p].appended >= 1
    /\ nextSpeaker.name \notin agents

\* C12: a reset leaves an empty history and mainline, summary "", the human
\* sentinel as next speaker, no human intent, the stop flag cleared with an
\* empty reason, both counters 0 and no first-response markers, and the
\* snapshot it persists holds this cleared state.
C12_Reset ==
  [][ClearHistory =>
       /\ messages' = <<>>
       /\ rootMessageId' = NoId
       /\ latestAcceptedMessageId' = NoId
       /\ GetMainHistory([messages |-> messages', rootMessageId |-> rootMessageId',
                          latestAcceptedMessageId |-> latestAcceptedMessageId']) = <<>>
       /\ currentBlock' = <<>>
       /\ nextSpeaker' = UserSentinel
       /\ userIntent' = ""
       /\ shouldStopConversation' = FALSE
       /\ stopReason' = ""
       /\ messageIdCounter' = 0
       /\ currentConversationMessageCount' = 0
       /\ firstResponseReceived' = {}
       /\ initialUserMessage' = ""
       /\ persisted' = Snapshot(<<>>, <<>>, UserSentinel, 0, "", 0)]_vars

\* A reset after turns: ids were generated and a turn is still running, and
\* the history, the counters and the snapshot are those of a new conversation.
C12_Witness ==
  /\ stamp >= 2
  /\ \E p \in 1..Len(pipes) : pipes[p].phase # "done"
  /\ messages = <<>>
  /\ messageIdCounter = 0
  /\ currentBlock = <<>>
  /\ persisted = Snapshot(<<>>, <<>>, UserSentinel, 0, "", 0)

-----------------------------------------------------------------------------
(* Claims about the summarizer                                             *)

\* The message pipeline p awaits the summary of.
Summarized(p) ==
  IF pipes[p].phase = "bsum" THEN pipes[p].accepted ELSE pipes[p].agentMessage

\* The deterministic fallback of the summarizer for pipeline p.
FallbackSummary(p) ==
  Substring(currentBlock \o Str("\n\n", 2) \o MessageLine(Summarized(p)), SummaryLimit)

\* C13: when the summarizer's model call fails or its answer does not parse,
\* the summary becomes the prior summary, a blank line and "speaker: content"
\* of the new message, cut to 500 characters, the next speaker is the human
\* sentinel and the reason is empty; the turn goes on (verification launched,
\* state saved) and the loop ends at once.
C13_SummarizerFallback ==
  [][\A p \in 1..Len(pipes) :
       (\E resp \in SummaryResponses :
          /\ ~resp.parsed
          /\ BroadcastSummarized(p, resp) \/ LoopSummarized(p, resp))
       => /\ currentBlock' = FallbackSummary(p)
          /\ TextLen(currentBlock') <= SummaryLimit
          /\ nextSpeaker' = UserSentinel
          /\ notifiedBlock' = [summary |-> FallbackSummary(p), next |-> UserSentinel,
                               recommendation_reason |-> "", stop_reason |-> "",
                               user_intent |-> ""]
          /\ Len(verifyLaunched') = Len(verifyLaunched) + 1
          /\ persisted'.currentBlock = FallbackSummary(p)
          /\ pipes'[p].phase = "done"
          /\ pipes'[p].exit \in {"human", "stop", "limit"}
          /\ pipes'[p].invoked = pipes[p].invoked]_vars

\* The fallback was cut: the summarizer failed in the loop after a summary
\* longer than 500 characters, and the loop ended on the human sentinel.
C13_Witness ==
  \E p \in 1..Len(pipes) :
    /\ pipes[p].phase = "done"
    /\ pipes[p].exit = "human"
    /\ pipes[p].appended >= 1
    /\ TextLen(currentBlock) = SummaryLimit
    /\ notifiedBlock.summary = currentBlock
    /\ notifiedBlock.recommendation_reason = ""
    /\ nextSpeaker = UserSentinel

\* C14: when the answer parses but names a next speaker that is neither in
\* the roster nor the human sentinel, the summarizer returns the fallback of
\* a failed call: the prior summary with "speaker: content" of the new
\* message (cut), the human sentinel as next speaker and an empty reason.
C14_ValidationFallback ==
  [][\A p \in 1..Len(pipes) :
       (\E resp \in SummaryResponses :
          /\ resp.parsed
          /\ resp.next \notin pipes[p].availableSpeakers \cup {"user"}
          /\ BroadcastSummarized(p, resp) \/ LoopSummarized(p, resp))
       => /\ currentBlock' = FallbackSummary(p)
          /\ nextSpeaker' = UserSentinel
          /\ notifiedBlock'.recommendation_reason = ""]_vars

\* C15: in every reachable state the block summary of the conversation has
\* at most 500 characters, whatever text the model returns as its summary.
C15_SummaryBound ==
  TextLen(currentBlock) <= SummaryLimit

-----------------------------------------------------------------------------
(* Claims about the verifier                                               *)

\* C16: the level of a verification depends on the message count alone:
\* lenient up to 3, moderate from 4 to 7, strict from 8 to 12 and very
\* strict above 12.
C16_Strictness ==
  \A i \in 1..Len(verifyLaunched) :
    LET n == verifyLaunched[i].messageCount
        level == verifyLaunched[i].level IN
    /\ n >= 0
    /\ (n <= 3) <=> (level = "LENIENT")
    /\ (4 <= n /\ n <= 7) <=> (level = "MODERATE")
    /\ (8 <= n /\ n <= 12) <=> (level = "STRICT")
    /\ (n > 12) <=> (level = "VERY_STRICT")

\* Two calls on either side of the last boundary.
C16_Witness ==
  /\ Len(verifyLaunched) = 2
  /\ verifyLaunched[1].messageCount = 12 /\ verifyLaunched[1].level = "STRICT"
  /\ verifyLaunched[2].messageCount = 13 /\ verifyLaunched[2].level = "VERY_STRICT"

\* C17: a verification whose call failed or whose answer did not parse
\* leaves the stop flag, the stop reason and the next speaker alone and
\* reports the intent known before; the stop flag is only ever set by a
\* parsed answer whose should_stop is the boolean true.
C17_FailOpen ==
  [][/\ \A c \in UserContents \cup {""}, resp \in VerifyResponses :
          (~resp.parsed /\ VerifyResolve(c, resp))
          => /\ shouldStopConversation' = shouldStopConversation
             /\ stopReason' = stopReason
             /\ nextSpeaker' = nextSpeaker
             /\ notifiedBlock' = notifiedBlock
             /\ verifierIntent' = verifierIntent
             /\ userIntent' = verifierIntent
             /\ pipes' = pipes
     /\ (shouldStopConversation' /\ ~shouldStopConversation)
          => \E c \in UserContents \cup {""}, resp \in VerifyResponses :
               /\ resp.parsed
               /\ resp.should_stop = "true"
               /\ VerifyResolve(c, resp)]_vars

\* A verification call was rejected by the scheduler's endpoint, the stop
\* flag is not set and the loop went on to append a further message.
C17_Witness ==
  /\ \E j \in JobIds : calls[j].kind = "verify" /\ promise[j] = "rejected"
  /\ ~shouldStopConversation
  /\ stopReason = ""
  /\ \E p \in 1..Len(pipes) : pipes[p].appended >= 1

C19_NeverStalled ==
  \A j \in JobIds :
    (/\ calls[j].kind \in {"bsum", "lsum"}
     /\ \E i \in 1..Len(queue) : queue[i] = j)
    => \E k \in inflight : calls[k].kind # "verify"

\* C20: the stop is cooperative. The step that sets the stop flag cancels
\* nothing: every pipeline keeps its phase, its agent call in flight and its
\* counts. While the flag is set, a reply to the call in flight is still
\* appended, a loop that comes to the top of an iteration halts there without
\* another call, and so a loop appends at most one message after the flag
\* was set.
C20_CooperativeStop ==
  [][\A p \in 1..Len(pipes) :
       /\ (~shouldStopConversation /\ shouldStopConversation')
            => pipes'[p] = [pipes[p] EXCEPT !.sinceStop = pipes'[p].sinceStop]
       /\ (shouldStopConversation /\ pipes[p].phase = "agent"
              /\ pipes'[p].phase # "agent")
            => \/ /\ pipes'[p].phase = "lsum"
                  /\ pipes'[p].appended = pipes[p].appended + 1
                  /\ Len(messages') = Len(messages) + 1
               \/ /\ pipes'[p].phase = "done"
                  /\ pipes'[p].exit = "error"
       /\ (shouldStopConversation /\ AtLoopHead(p)
              /\ pipes'[p].phase # pipes[p].phase)
            => /\ pipes'[p].phase = "done"
               /\ pipes'[p].exit \in {"stop", "limit"}
               /\ pipes'[p].invoked = pipes[p].invoked
       /\ pipes'[p].sinceStop <= 1]_vars

\* A loop has halted on the stop flag after it appended the reply of the call
\* that was in flight when a verification set the flag.
C20_Witness ==
  \E p \in 1..Len(pipes) :
    /\ pipes[p].phase = "done"
    /\ pipes[p].exit = "stop"
    /\ pipes[p].sinceStop = 1
    /\ shouldStopConversation

-----------------------------------------------------------------------------
(* Claims about failures, parent links and the roster                      *)

\* The positions of the replies to the human message of pipeline p.
Replies(p, msgs) == {i \in 1..Len(msgs) : msgs[i].replyTo = pipes[p].um.id}

\* C21: in broadcast mode a failed agent call changes nothing but the set of
\* calls waited for; a reply is appended however many calls failed, and once
\* there is a reply one reply is accepted; the broadcast ends with the
\* summarizer called on the accepted reply exactly if some call succeeded,
\* and never with an error; if every call failed it ends with no reply
\* appended or accepted, no summarizer or verifier call, and the
\* accepted-message counter unchanged.
C21_BroadcastIsolation ==
  [][\A p \in 1..Len(pipes) : pipes[p].phase = "agents" =>
       /\ \A a \in pipes[p].waiting :
            /\ BroadcastReply(p, a, FALSE)
                 => /\ messages' = messages
                    /\ firstResponseReceived' = firstResponseReceived
                    /\ pipes'[p].waiting = pipes[p].waiting \ {a}
            /\ BroadcastReply(p, a, TRUE)
                 => /\ Len(messages') = Len(messages) + 1
                    /\ messages'[Len(messages')].speaker = a
                    /\ Len(messages') \in Replies(p, messages')
       /\ Replies(p, messages') # {}
            => \E i \in Replies(p, messages') : messages'[i].status = "accepted"
       /\ pipes'[p].phase \in {"agents", "bsum", "done"}
       /\ pipes'[p].phase = "bsum"
            => /\ Replies(p, messages') # {}
               /\ pipes'[p].accepted.status = "accepted"
               /\ pipes'[p].accepted.replyTo = pipes[p].um.id
       /\ pipes'[p].phase = "done"
            => /\ pipes'[p].exit = "no_reply"
               /\ Replies(p, messages') = {}
               /\ pipes'[p].accepted = NoMsg
               /\ UNCHANGED <<messages, currentBlock, nextSpeaker, verifyLaunched,
                              verifyPending, currentConversationMessageCount>>]_vars

\* Of two broadcasts to two agents, in one every call failed and in the other
\* one call failed and the reply of the other agent was accepted.
C21_Witness ==
  /\ agents = AgentNames
  /\ \E p, q \in 1..Len(pipes) :
       /\ pipes[p].phase = "done" /\ pipes[p].exit = "no_reply"
       /\ Replies(p, messages) = {}
       /\ pipes[q].phase # "agents"
       /\ Cardinality(Replies(q, messages)) = 1
       /\ pipes[q].accepted.status = "accepted"

\* C22: when the agent call of a round of the loop fails, the loop of that
\* pipeline ends there with no message appended, the step changes nothing of
\* the history, the block summary, the recommended next speaker, the stop
\* flag, the accepted-message counter and the saved snapshot, and no other
\* pipeline is affected.
C22_SequentialFailure ==
  [][\A p \in 1..Len(pipes) :
       (pipes[p].phase = "agent" /\ pipes'[p].phase # "agent"
          /\ messages' = messages)
       => /\ pipes'[p].phase = "done"
          /\ pipes'[p].exit = "error"
          /\ pipes'[p].appended = pipes[p].appended
          /\ pipes'[p].invoked = pipes[p].invoked
          /\ UNCHANGED <<dagVars, messageIdCounter, currentBlock, nextSpeaker,
                         shouldStopConversation, stopReason, userIntent,
                         currentConversationMessageCount, initialUserMessage,
                         firstResponseReceived, persisted, verifyLaunched,
                         verifyPending, agents>>
          /\ \A q \in 1..Len(pipes) : q # p => pipes'[q] = pipes[q]]_vars

\* A loop ended on a failed agent call after it had appended a message.
C22_Witness ==
  \E p \in 1..Len(pipes) :
    /\ pipes[p].phase = "done"
    /\ pipes[p].exit = "error"
    /\ pipes[p].appended >= 1
    /\ pipes[p].invoked = pipes[p].appended + 1

\* Some turn is suspended at an await, or a verification has not resolved.
InProgress ==
  \/ \E p \in 1..Len(pipes) : pipes[p].phase # "done"
  \/ \E c \in UserContents \cup {""} : verifyPending[c] > 0

\* C23: single writer: at most one turn pipeline is in progress at any
\* time, and a human message is ingested, or the conversation reset, only
\* when no pipeline is suspended at an await and no verification is pending.
C23_SingleWriter ==
  [][/\ Cardinality({p \in 1..Len(pipes') : pipes'[p].phase # "done"}) <= 1
     /\ ((\E c \in UserContents : SendMessage(c)) \/ ClearHistory) => ~InProgress]_vars

\* C24: parent links: only the root, the first human message, has no
\* parent reference; every other message, a later human message too, names
\* as parent a message stored in the history.
C24_ParentLinks ==
  \A i \in 1..Len(messages) :
    IF messages[i].replyTo = NoId
    THEN messages[i].id = rootMessageId /\ messages[i].speaker = "User"
    ELSE GetMessage(messages, messages[i].replyTo) # NoMsg

\* The thread ids that have a value in a map of the ThreadManager.
Live(map, none) == {t \in ThreadIds : map[t] # none}

\* C25: the threads that have metadata are the threads that have a
\* conversation state, whatever was created, deleted, renamed, changed in
\* its roster or reloaded; createThread adds both, the state being a fresh
\* one, deleteThread removes both, and deleteThread of an unknown id changes
\* nothing and reports failure.
C25_RegistryLockstep ==
  [][/\ Live(threads, NoThread) = Live(worlds, NoWorld)
     /\ Live(threads', NoThread) = Live(worlds', NoWorld)
     /\ \A t \in ThreadIds :
          /\ \A name \in ThreadNames, roster \in SuppliedRosters, o \in StoreOutcomes :
               CreateThread(t, name, roster, 0, o)
                 => /\ Live(threads', NoThread) = Live(threads, NoThread) \cup {t}
                    /\ t \notin Live(threads, NoThread)
                    /\ worlds'[t].messages = <<>>
                    /\ worlds'[t].currentBlock = <<>>
                    /\ worlds'[t].nextSpeaker = UserSentinel
                    /\ returned'
          /\ \A o \in StoreOutcomes :
               DeleteThread(t, o)
                 => /\ Live(threads', NoThread) = Live(threads, NoThread) \ {t}
                    /\ returned' = (t \in Live(threads, NoThread))
                    /\ t \notin Live(threads, NoThread)
                         => UNCHANGED <<threads, worlds, stored>>]_vars

\* A thread was created, given a message, an agent and another name, and
\* the delete of an id that has no thread has just reported failure.
C25_Witness ==
  \E t, u \in ThreadIds :
    /\ threads[t] # NoThread
    /\ threads[t].name = "n2"
    /\ threads[t].agents # <<>>
    /\ worlds[t].messages # <<>>
    /\ threads[u] = NoThread /\ worlds[u] = NoWorld
    /\ ~returned

\* C26: no two personas in the roster of a thread have the same name.
C26_UniqueNames ==
  \A t \in ThreadIds : threads[t] # NoThread =>
    \A i, j \in 1..Len(threads[t].agents) :
      threads[t].agents[i].name = threads[t].agents[j].name => i = j

\* The roster of the thread of the conversation, by name.
ThreadRoster == NameSet(threads[ConvId].agents)

\* C27: the roster of the conversation is the roster of its thread after
\* every addAgent and removeAgent, and a turn in flight uses it from then
\* on: the agent a round of the loop calls is in the roster as it is when
\* the round starts, so an agent removed before is not called.
C27_RosterPropagation ==
  [][/\ agents = ThreadRoster
     /\ agents' = NameSet(threads'[ConvId].agents)
     /\ worlds'[ConvId].agents = Names(threads'[ConvId].agents)
     /\ threads'[ConvId] # threads[ConvId] => returned'
     /\ \A p \in 1..Len(pipes) :
          (pipes[p].phase # "agent" /\ pipes'[p].phase = "agent")
            => pipes'[p].agent \in ThreadRoster]_vars

\* The roster was agent A alone when the human message was sent; agent B
\* was added during the turn and is called by a round of the loop, and
\* agent A has been removed.
C27_Witness ==
  /\ pipes # <<>>
  /\ pipes[1].phase = "agent"
  /\ pipes[1].agent = "B"
  /\ agents = {"B"}
  /\ ThreadRoster = {"B"}

\* The speakers the summarizer called for pipeline p may name.
Eligible(p) == {UserSentinel} \cup {Speaker(a) : a \in pipes[p].availableSpeakers}

\* C28: the next speaker a summarizer call returns is the human sentinel or
\* an agent of the roster as it was when the summarizer was called, on the
\* parsed path and on the fallback path; any other step leaves the
\* next-speaker field as it is or sets it to the human sentinel.
C28_EligibleNext ==
  [][/\ \A p \in 1..Len(pipes) :
          AtLoopHead(p) => /\ nextSpeaker' \in Eligible(p)
                           /\ notifiedBlock'.next \in Eligible(p)
     /\ (\A p \in 1..Len(pipes) : ~AtLoopHead(p))
          => nextSpeaker' \in {nextSpeaker, UserSentinel}]_vars

\* The summarizer named an agent that was in the roster when it was called
\* and has left it since; the loop found no such agent and ended.
C28_Witness ==
  /\ pipes # <<>>
  /\ pipes[1].phase = "done"
  /\ pipes[1].exit = "miss"
  /\ nextSpeaker # UserSentinel
  /\ nextSpeaker.name \notin agents
  /\ nextSpeaker.name \in AgentNames

\* The number of verify() calls launched for the message with this id.
Verifications(id) ==
  Cardinality({k \in 1..Len(verifyLaunched) : verifyLaunched[k].id = id})

\* C29: a verification is launched once for every message appended as
\* accepted and for no dropped message: never twice for one message, and
\* once the pipelines have run to their end every accepted message has had
\* its verification.
C29_VerifyOncePerAccepted ==
  \A i \in 1..Len(messages) :
    /\ messages[i].status = "dropped" => Verifications(messages[i].id) = 0
    /\ messages[i].status = "accepted" => Verifications(messages[i].id) <= 1
    /\ (messages[i].status = "accepted"
          /\ \A p \in 1..Len(pipes) : pipes[p].phase = "done")
       => Verifications(messages[i].id) = 1

\* The position of the most recent human message in the history (0: none).
LastHuman ==
  LET humans == {i \in 1..Len(messages) : messages[i].speaker = "User"} IN
  IF humans = {} THEN 0 ELSE CHOOSE i \in humans : \A j \in humans : j <= i

\* The messages appended as accepted since the most recent human message.
AcceptedSince ==
  {i \in 1..Len(messages) : i > LastHuman /\ messages[i].status = "accepted"}

\* C30: when no turn is suspended at an await, the accepted-message counter
\* is the number of messages appended as accepted since the most recent
\* human message was ingested.
C30_AcceptedCounter ==
  (\A p \in 1..Len(pipes) : pipes[p].phase = "done")
    => currentConversationMessageCount = Cardinality(AcceptedSince)

-----------------------------------------------------------------------------
(* Claims about the order of the steps of a turn, deletion and persistence *)

\* The replies to the human message of pipeline p stored with `status`.
RepliesWith(p, msgs, status) ==
  {i \in 1..Len(msgs) : msgs[i].replyTo = pipes[p].um.id /\ msgs[i].status = status}

\* C31: for each broadcast human message that obtains an accepted reply the
\* summarizer is called once, for an accepted reply to that message and never
\* for a dropped one (it is skipped only when no reply was accepted), and when
\* its answer arrives the result is the block summary and the next speaker
\* with which the sequential loop starts at round 0.
C31_BroadcastSummarization ==
  [][\A p \in 1..Len(pipes) :
       LET pipe == pipes[p]
           after == pipes'[p] IN
       /\ (pipe.phase # "bsum" /\ after.phase = "bsum")
            => /\ pipe.phase = "agents"
               /\ after.accepted.status = "accepted"
               /\ after.accepted.replyTo = pipe.um.id
               /\ \E i \in 1..Len(messages') : messages'[i] = after.accepted
       /\ (pipe.phase = "agents" /\ after.phase = "done")
            => RepliesWith(p, messages', "accepted") = {}
       /\ (pipe.phase = "bsum" /\ after.phase # "bsum")
            => /\ after.phase \in {"agent", "done"}
               /\ after.round = 0
               /\ after.lastMessage = pipe.accepted
               /\ \E resp \in SummaryResponses :
                    LET r == SummarizeBlock(resp, currentBlock, pipe.accepted,
                                            pipe.availableSpeakers) IN
                    /\ currentBlock' = r.summary
                    /\ nextSpeaker' = r.next
                    /\ after.phase = "agent" => after.agent = r.next.name
       /\ pipe.phase \in {"agent", "lsum", "done"}
            => after.phase \in {"agent", "lsum", "done"}
    ]_vars

\* The summarizer was called for the accepted reply of a human message that
\* also has a dropped reply, and the loop started with its recommendation.
C31_Witness ==
  \E p \in 1..Len(pipes) :
    /\ pipes[p].phase = "agent"
    /\ pipes[p].round = 0
    /\ RepliesWith(p, messages, "dropped") # {}
    /\ pipes[p].lastMessage.status = "accepted"
    /\ nextSpeaker.name = pipes[p].agent
    /\ currentBlock # <<>>

\* The agent calls of the broadcast of pipeline p: the replies appended to
\* its human message and the calls still awaited.
BroadcastCalls(p, msgs, ps) ==
  Cardinality({i \in 1..Len(msgs) : msgs[i].replyTo = ps[p].um.id})
    + Cardinality(ps[p].waiting)

\* C32: when every agent call and every summarizer call eventually returns or
\* fails, the turn pipeline of a human message ends, and stays ended, with no
\* call awaited; its broadcast appends at most as many replies as the roster
\* had agents when the message was ingested, and its loop at most maxRounds
\* messages.
C32_TurnTermination ==
  /\ [][/\ Len(pipes') > Len(pipes)
            => BroadcastCalls(Len(pipes'), messages', pipes') <= Cardinality(agents)
        /\ \A p \in 1..Len(pipes) :
             /\ BroadcastCalls(p, messages', pipes') <= BroadcastCalls(p, messages, pipes)
             /\ pipes[p].phase = "done" => pipes'[p].phase = "done"]_vars
  /\ [](\A p \in 1..Len(pipes) : pipes[p].appended <= maxRounds)
  /\ (pipes # <<>>)
       ~> (pipes # <<>> /\ pipes[1].phase = "done" /\ pipes[1].waiting = {})

\* A turn that ended after a broadcast to two agents, both of which replied,
\* and a loop that ran all its rounds.
C32_Witness ==
  /\ pipes # <<>>
  /\ pipes[1].phase = "done"
  /\ pipes[1].appended = maxRounds
  /\ BroadcastCalls(1, messages, pipes) = 2
  /\ pipes[1].waiting = {}

\* The roster of thread t has a persona with this endpoint reference.
HasEndpoint(t, url) ==
  threads[t] # NoThread
    /\ \E i \in 1..Len(threads[t].agents) : threads[t].agents[i].a2aUrl = url

\* The roster of thread t has a member removeAgent(t, agentId) would remove.
HasMember(t, agentId) ==
  threads[t] # NoThread
    /\ \E i \in 1..Len(threads[t].agents) :
         threads[t].agents[i].name = agentId \/ threads[t].agents[i].a2aUrl = agentId

\* C33: addAgent with the endpoint reference of a roster member, addAgent or
\* removeAgent on an unknown thread id, and removeAgent naming no roster
\* member report failure and leave the thread (its roster and updatedAt), the
\* conversation state and the store as they were. No step that reports
\* failure changes any of them, and no step appends to a roster a persona
\* whose endpoint reference the roster already has.
C33_DuplicateEndpointRejected ==
  [][/\ ~returned' => UNCHANGED <<threads, worlds, stored>>
     /\ \A t \in ThreadIds :
          (threads[t] # NoThread /\ threads'[t] # NoThread
             /\ Len(threads'[t].agents) = Len(threads[t].agents) + 1
             /\ SubSeq(threads'[t].agents, 1, Len(threads[t].agents)) = threads[t].agents)
            => ~HasEndpoint(t, threads'[t].agents[Len(threads'[t].agents)].a2aUrl)
     /\ \A t \in ThreadIds, now \in Times :
       /\ \A agent \in Personas :
            (AddAgentTo(t, agent, now, "done")
               /\ (threads[t] = NoThread \/ HasEndpoint(t, agent.a2aUrl)))
              => ~returned' /\ UNCHANGED <<threads, worlds, stored>>
       /\ \A agentId \in AgentIds :
            (RemoveAgentFrom(t, agentId, now, "done")
               /\ (threads[t] = NoThread \/ ~HasMember(t, agentId)))
              => ~returned' /\ UNCHANGED <<threads, worlds, stored>>
    ]_vars

\* An operation has just reported failure on a registry in which a thread
\* has a roster member and its conversation state the same roster.
C33_Witness ==
  /\ ~returned
  /\ \E t \in ThreadIds :
       /\ HasEndpoint(t, "uA")
       /\ threads[t].updatedAt = 0
       /\ worlds[t] # NoWorld
       /\ worlds[t].agents = Names(threads[t].agents)

\* C34: once deleteThread has completed for the thread of the conversation,
\* the store has no thread:<id> key, no messages:<id> key and no entry of
\* the id in threads:list, at that moment and ever after.
C34_DeletePurges ==
  threads[ConvId] = NoThread
    => /\ stored.thread[ConvId] = NoThread
       /\ ConvId \notin stored.list
       /\ stored.messages[ConvId] = NoData
       /\ persisted = NoSnapshot

\* C35: a verification launched before the most recent human message was
\* ingested (its captured initial message is not the current one) changes
\* neither the stop flag, the stop reason, the human intent nor the next
\* speaker of the conversation when it resolves.
C35_NoStaleVerification ==
  [][\A c \in UserContents, resp \in VerifyResponses :
       (VerifyResolve(c, resp) /\ initialUserMessage \in UserContents
          /\ c # initialUserMessage)
         => UNCHANGED <<shouldStopConversation, stopReason, userIntent, nextSpeaker>>
    ]_vars

\* C36: whenever the stop flag is set, the recommended next speaker is the
\* human sentinel.
C36_StoppedMeansWaiting ==
  shouldStopConversation => nextSpeaker = UserSentinel

\* C37: from a reset until the next human message is ingested (the initial
\* message is "" exactly then), the history is empty and the summary, the
\* next speaker, the stop flag, the human intent and the accepted-message
\* counter have their initial values.
C37_ResetStable ==
  initialUserMessage = ""
    => /\ messages = <<>>
       /\ currentBlock = <<>>
       /\ nextSpeaker = UserSentinel
       /\ ~shouldStopConversation
       /\ userIntent = ""
       /\ currentConversationMessageCount = 0

\* The positions of the accepted messages in the history.
AcceptedIndices == {i \in 1..Len(messages) : messages[i].status = "accepted"}

\* C38: when every turn has completed, every accepted message is an element
\* of the main history, and the most recently accepted one is its last
\* element.
C38_MainlineComplete ==
  LET mainHistory == GetMainHistory(Dag) IN
  (\A p \in 1..Len(pipes) : pipes[p].phase = "done")
    => /\ \A i \in AcceptedIndices :
            \E k \in 1..Len(mainHistory) : mainHistory[k] = messages[i]
       /\ AcceptedIndices # {}
            => mainHistory # <<>>
               /\ mainHistory[Len(mainHistory)] =
                    messages[CHOOSE i \in AcceptedIndices :
                               \A j \in AcceptedIndices : j <= i]

\* C39: while an agent call of the broadcast of a human message is
\* outstanding, that pipeline is still waiting in Promise.all: no accepted
\* reply has been picked for the summarizer, the loop has called no agent
\* and appended nothing, and no verification was launched for a reply to the
\* message, even though a reply may already be accepted; a return of one of
\* the calls that leaves another outstanding changes neither the block
\* summary, the next speaker, the verifications nor the accepted-message
\* counter, and the summarizer is called only with no call outstanding.
C39_BroadcastBarrier ==
  [][\A p \in 1..Len(pipes) :
       /\ pipes[p].waiting # {}
            => /\ pipes[p].phase = "agents"
               /\ pipes[p].accepted = NoMsg
               /\ pipes[p].invoked = 0
               /\ pipes[p].appended = 0
               /\ \A i \in Replies(p, messages) : Verifications(messages[i].id) = 0
       /\ (pipes'[p].waiting # pipes[p].waiting /\ pipes'[p].waiting # {})
            => UNCHANGED <<currentBlock, nextSpeaker, verifyLaunched, verifyPending,
                           currentConversationMessageCount, notifiedBlock>>
       /\ pipes'[p].phase \in {"bsum", "agent", "lsum"} => pipes'[p].waiting = {}
    ]_vars

\* A reply to a human message is accepted while the call of another agent
\* for that message is outstanding, and nothing has been done with it.
C39_Witness ==
  \E p \in 1..Len(pipes) :
    /\ pipes[p].waiting # {}
    /\ RepliesWith(p, messages, "accepted") # {}
    /\ pipes[p].accepted = NoMsg
    /\ currentBlock = <<>>
    /\ verifyLaunched = <<>>

\* No agent call, summarizer call or verification of the conversation is
\* outstanding.
AtRest ==
  /\ \A p \in 1..Len(pipes) : pipes[p].phase = "done"
  /\ \A c \in DOMAIN verifyPending : verifyPending[c] = 0

\* C40: at rest, the snapshot last written for the conversation has the
\* message list, block summary, next speaker, message-id counter and
\* accepted-message counter of the state in memory.
C40_SnapshotMatchesMemory ==
  (AtRest /\ persisted # NoSnapshot)
    => /\ persisted.messages = messages
       /\ persisted.currentBlock = currentBlock
       /\ persisted.nextSpeaker = nextSpeaker
       /\ persisted.messageIdCounter = messageIdCounter
       /\ persisted.currentConversationMessageCount = currentConversationMessageCount

=============================================================================
